---- MODULE Spec2Model ----
(***************************************************************************)
(* BMAD GUI: the Claude Code process manager (claude_manager.py) and the   *)
(* session controller handlers (handlers/claude.py) as a state machine.    *)
(*                                                                         *)
(* The program is single-threaded asyncio.  One action of the model is one *)
(* run of a coroutine from the point where it was resumed to its next      *)
(* await (or its return).  Every await is a point at which other           *)
(* coroutines may run.                                                     *)
(*                                                                         *)
(* The manager hands every event to the event hub (handlers/sse.py), which *)
(* writes it to the live subscribers one at a time, awaiting each write.   *)
(***************************************************************************)
EXTENDS Integers, Sequences, FiniteSets, TLC

\* ------------------------------------------------------------------ bounds
\* HTTP requests that may be in flight at the same time
NumCallers == 2
\* handler calls begun in one run
MaxOps == 3
\* PTY processes spawned in one run
MaxProcs == 2
\* ClaudeCodeManager objects constructed in one run
MaxMgrs == 2
\* non-empty output chunks read in one run
MaxChunks == 1
\* SSE connections accepted in one run
MaxSubs == 2
\* heartbeats broadcast in one run
MaxBeats == 1
\* requests made in a run that has subscribers
MaxHubOps == 1
\* one-shot executions that run
MaxShots == 1
\* lines a one-shot child writes to one stream
MaxLines == 1
\* requests made in a run whose chunks are read byte by byte
MaxSanOps == 1
\* stop requests made on a session that has subscribers
MaxLiveOps == 1
\* pieces (texts, escape sequences) a child process writes to its PTY
MaxStream == 2
\* start_file_watcher and stop_file_watcher calls that may be in progress at
\* the same time
NumOpeners == 2
\* start_file_watcher and stop_file_watcher calls begun in one run
MaxOpens == 4
\* watcher tasks created in one run
MaxWatchers == 3

Callers == 1..NumCallers
Procs == 1..MaxProcs
Mgrs == 1..MaxMgrs
Paths == {"projA", "projB"}
Cmds == {"hello", "status"}
Subs == 1..MaxSubs
Shots == 1..MaxShots
Openers == 1..NumOpeners
Watchers == 1..MaxWatchers
Streams == {"text", "error"}
\* the return codes of a child
ExitCodes == {0, 2}

\* who can be inside broadcast_sse_event: the heartbeat task, a request, a
\* read task, a one-shot execution and each of its two stream readers
HbB == 0
CallB(c) == c
TaskB(t) == NumCallers + t
ShotB(k) == NumCallers + MaxProcs + k
StreamB(k, st) ==
    NumCallers + MaxProcs + MaxShots + (IF st = "text" THEN k ELSE MaxShots + k)
Bcasters == 0..(NumCallers + MaxProcs + MaxShots + MaxShots + MaxShots)

\* ProcessStatus enum values
STOPPED == "stopped"
STARTING == "starting"
RUNNING == "running"
ERROR == "error"

None == "None"
NotFoundMsg == "claude not found"
SpawnErrMsg == "spawn failed"
ExecFailedMsg == "exec failed"
\* str(e) of the RuntimeError a set iterator raises
SetChangedMsg == "Set changed size during iteration"

VARIABLES
    interactive,     \* sys.platform == "win32" and WINPTY_AVAILABLE
    projects,        \* the project paths load_recent_projects can give
    claude_manager,  \* the global manager: 0 is None, else a manager id
    nMgrs,           \* managers constructed so far
    project_path,    \* [Mgrs -> Paths \cup {None}]
    status,          \* [Mgrs -> ProcessStatus]
    pid,             \* [Mgrs -> Int], 0 is None
    started_at,      \* [Mgrs -> Int], 0 is None, else the time of the start
    error_message,   \* [Mgrs -> STRING]
    pty_process,     \* [Mgrs -> Int]: _pty_process, 0 is None, else a process
    read_task,       \* [Mgrs -> Int]: _read_task, 0 is None, else a task
    procState,       \* [Procs -> {"unspawned","alive","exited","closed"}]
    taskPc,          \* [Procs -> position of the read task created with the process]
    taskCancel,      \* [Procs -> BOOLEAN]: cancel() requested, not yet delivered
    owner,           \* [Procs -> Int]: the manager (self) of the process and its task
    pc,              \* [Callers -> position of the request]
    callMgr,         \* [Callers -> Int]: self of the method the request is in
    callCmd,         \* [Callers -> STRING]: command of a send request
    callTask,        \* [Callers -> Int]: the task a stop() awaits
    ops,             \* handler calls begun (also the clock of started_at)
    nread,           \* non-empty chunks read
    events,          \* every event handed to the broadcast function, in order
    writes,          \* every write attempted on a process handle, in order
    oneshots,        \* every _execute_stateless task created, in order
    sse_clients,     \* the live set of SSE responses
    nSubs,           \* SSE connections accepted so far
    subPc,           \* [Subs -> position of the connection's sse_handler]
    hbPc,            \* position of sse_heartbeat_task
    nbeats,          \* heartbeats broadcast
    bc,              \* [Bcasters -> the broadcast_sse_event call it is inside]
    sinkWrites,      \* every send_sse_event of a broadcast: sink, event, result
    emptyBc,         \* the events broadcast while the live set was empty
    shotPc,          \* [Shots -> position of the _execute_stateless task]
    rdPc,            \* [Shots -> [Streams -> position of read_stream]]
    child,           \* [Shots -> {"none", "running", "exited"}]
    returncode,      \* [Shots -> Int]: the code the child exited with
    nlines,          \* [Shots -> [Streams -> Nat]]: lines read from the stream
    execRead,        \* [Procs -> BOOLEAN]: the executor thread still runs the
                     \* read that the cancelled task dispatched
    srvPc,           \* position of the server: up, or where on_shutdown is
    output,          \* the raw chunk the last read of the handle returned
    clean_output,    \* that chunk with the matches of ansi_escape removed
    stream,          \* the pieces the child process has written to its PTY
    nbytes,          \* how many bytes of them the read task has read
    content,         \* the contents of the text events of the chunks, joined
    file_watcher_task, \* watchers.py: 0 is None, else a watcher task
    nWatchers,       \* watcher tasks created so far
    watchPc,         \* [Watchers -> position of watch_project_files]
    watchCancel,     \* [Watchers -> BOOLEAN]: cancel() requested, not yet delivered
    openPc,          \* [Openers -> position of the start/stop_file_watcher call]
    openTask,        \* [Openers -> Int]: the task the call awaits
    nOpens           \* start/stop_file_watcher calls begun

mgrVars == <<claude_manager, nMgrs, project_path, status, pid, started_at,
              error_message, pty_process, read_task>>
procVars == <<procState, taskPc, taskCancel, owner>>
callVars == <<pc, callMgr, callCmd, callTask, ops>>
logVars == <<nread, events, writes, oneshots>>
envVars == <<interactive, projects>>
hubVars == <<sse_clients, nSubs, subPc, hbPc, nbeats>>
bcVars == <<bc, sinkWrites, emptyBc>>
shotVars == <<shotPc, rdPc, child, returncode, nlines>>
sanVars == <<output, clean_output, stream, nbytes, content>>
watchVars == <<file_watcher_task, nWatchers, watchPc, watchCancel, openPc,
               openTask, nOpens>>
vars == <<envVars, mgrVars, procVars, callVars, logVars, hubVars, bcVars,
          shotVars, execRead, srvPc, sanVars, watchVars>>

\* ------------------------------------------------------------------ events
\* status: the status of a claude_status event, the event_type of a
\* claude_output event.  seq: the number of the chunk or line, the exit code
\* of a complete event.  shot: the one-shot execution the event comes from.
StatusEv(m, st, p, msg) ==
    [ev |-> "claude_status", status |-> st, pid |-> p, msg |-> msg,
     cmd |-> "", seq |-> 0, m |-> m, shot |-> 0]
CmdEv(m, cmd) ==
    [ev |-> "command_sent", status |-> "", pid |-> 0, msg |-> "",
     cmd |-> cmd, seq |-> 0, m |-> m, shot |-> 0]
TextEv(m, n) ==
    [ev |-> "claude_output", status |-> "text", pid |-> 0, msg |-> "",
     cmd |-> "", seq |-> n, m |-> m, shot |-> 0]
HeartbeatEv(n) ==
    [ev |-> "heartbeat", status |-> "", pid |-> 0, msg |-> "",
     cmd |-> "", seq |-> n, m |-> 0, shot |-> 0]
\* claude_manager.py:238-242: a line of the stdout ("text") or the stderr
\* ("error") of a one-shot child
LineEv(k, type, n) ==
    [ev |-> "claude_output", status |-> type, pid |-> 0, msg |-> "",
     cmd |-> "", seq |-> n, m |-> 0, shot |-> k]
\* claude_manager.py:250-255
CompleteEv(k, code) ==
    [ev |-> "claude_output", status |-> "complete", pid |-> 0, msg |-> "",
     cmd |-> "", seq |-> code, m |-> 0, shot |-> k]
\* claude_manager.py:259-263
ExecFailedEv(k) ==
    [ev |-> "claude_output", status |-> "error", pid |-> 0,
     msg |-> ExecFailedMsg, cmd |-> "", seq |-> 0, m |-> 0, shot |-> k]

\* pid of a PTY process; the stateless mode uses the marker pid 1
PtyPid(p) == 10 + p
StatelessPid == 1

IsAlive(p) == procState[p] = "alive"
TaskDone(t) == taskPc[t] \in {"done", "raised"}
Idle(c) == pc[c] \in {"idle", "ret_true", "ret_false", "resp_early", "raised"}

\* ClaudeCodeManager.get_status
GetStatus(m) ==
    [status |-> status[m], pid |-> pid[m], started_at |-> started_at[m],
     error_message |-> error_message[m]]

\* b is inside no broadcast_sse_event call.  Of a call: st is where it is, i
\* the event, start the set the iteration started on, visited the clients
\* written to, disc the set disconnected, nw the writes attempted, ext
\* (oth) whether sse_handler (another broadcast) changed the set meanwhile
NoBc ==
    [st |-> "idle", i |-> 0, start |-> {}, visited |-> {}, disc |-> {},
     nw |-> 0, ext |-> FALSE, oth |-> FALSE]

InitWith(paths) ==
    /\ interactive \in BOOLEAN
    /\ projects = paths
    /\ claude_manager = 0
    /\ nMgrs = 0
    /\ project_path = [m \in Mgrs |-> None]
    /\ status = [m \in Mgrs |-> STOPPED]
    /\ pid = [m \in Mgrs |-> 0]
    /\ started_at = [m \in Mgrs |-> 0]
    /\ error_message = [m \in Mgrs |-> None]
    /\ pty_process = [m \in Mgrs |-> 0]
    /\ read_task = [m \in Mgrs |-> 0]
    /\ procState = [p \in Procs |-> "unspawned"]
    /\ taskPc = [p \in Procs |-> "none"]
    /\ taskCancel = [p \in Procs |-> FALSE]
    /\ owner = [p \in Procs |-> 0]
    /\ pc = [c \in Callers |-> "idle"]
    /\ callMgr = [c \in Callers |-> 0]
    /\ callCmd = [c \in Callers |-> ""]
    /\ callTask = [c \in Callers |-> 0]
    /\ ops = 0
    /\ nread = 0
    /\ events = <<>>
    /\ writes = <<>>
    /\ oneshots = <<>>
    /\ sse_clients = {}
    /\ nSubs = 0
    /\ subPc = [s \in Subs |-> "none"]
    /\ hbPc = "sleep"
    /\ nbeats = 0
    /\ bc = [b \in Bcasters |-> NoBc]
    /\ sinkWrites = {}
    /\ emptyBc = {}
    /\ shotPc = [k \in Shots |-> "none"]
    /\ rdPc = [k \in Shots |-> [st \in Streams |-> "none"]]
    /\ child = [k \in Shots |-> "none"]
    /\ returncode = [k \in Shots |-> 0]
    /\ nlines = [k \in Shots |-> [st \in Streams |-> 0]]
    /\ execRead = [p \in Procs |-> FALSE]
    /\ srvPc = "up"
    /\ output = <<>>
    /\ clean_output = <<>>
    /\ stream = <<>>
    /\ nbytes = 0
    /\ content = <<>>
    /\ file_watcher_task = 0
    /\ nWatchers = 0
    /\ watchPc = [w \in Watchers |-> "none"]
    /\ watchCancel = [w \in Watchers |-> FALSE]
    /\ openPc = [o \in Openers |-> "idle"]
    /\ openTask = [o \in Openers |-> 0]
    /\ nOpens = 0

\* one project is open for the whole run
Init == InitWith({"projA"})

\* the user opens another project between two requests
CtlInit == InitWith(Paths)

\* ------------------------------------------------------------------ helpers
\* a request returns: its slot is free again and remembers the result
Ret(c, r) ==
    /\ pc' = [pc EXCEPT ![c] = r]
    /\ callMgr' = [callMgr EXCEPT ![c] = 0]
    /\ callCmd' = [callCmd EXCEPT ![c] = ""]
    /\ callTask' = [callTask EXCEPT ![c] = 0]

Goto(c, l) ==
    /\ pc' = [pc EXCEPT ![c] = l]
    /\ UNCHANGED <<callMgr, callCmd, callTask>>

\* the next process winpty.PtyProcess.spawn creates
NextProc == Cardinality({p \in Procs : procState[p] # "unspawned"}) + 1

\* ------------------------------------------------------------------ the event hub
\* the broadcast b awaits has returned, normally or with the RuntimeError of
\* the iteration over sse_clients
Returned(b) == bc[b].st # "writing"
Raised(b) == bc[b].st = "raised"

\* a client is taken for disconnected whatever its write gave
SendSse_AlwaysDisconnects(b, call, x, i, ok) ==
    /\ bc' = [bc EXCEPT ![b] =
                [call EXCEPT !.st = "writing",
                             !.visited = @ \cup {x},
                             !.disc = @ \cup {x},
                             !.nw = @ + 1]]
    /\ sinkWrites' = sinkWrites \cup {[s |-> x, i |-> i, ok |-> ok]}

\* sse.py:59-61: send_sse_event on client x for event i and the test of its
\* result; ok is whether the write went through
SendSse(b, call, x, i, ok) ==
    /\ bc' = [bc EXCEPT ![b] =
                [call EXCEPT !.st = "writing",
                             !.visited = @ \cup {x},
                             !.disc = IF ok THEN @ ELSE @ \cup {x},
                             !.nw = @ + 1]]
    /\ sinkWrites' = sinkWrites \cup {[s |-> x, i |-> i, ok |-> ok]}

\* b leaves (or was never in) a broadcast and starts none
NoBroadcast(b) ==
    /\ bc' = [bc EXCEPT ![b] = NoBc]
    /\ UNCHANGED <<sinkWrites, emptyBc>>

\* sse.py:54-55  if not sse_clients: return
BroadcastNobody(b) ==
    /\ bc' = [bc EXCEPT ![b] = NoBc]
    /\ emptyBc' = emptyBc \cup {Len(events) + 1}
    /\ UNCHANGED sinkWrites

\* sse.py:52-59: broadcast_sse_event up to its first await: nothing when the
\* set is empty, else the write to the first client the iteration gives
Broadcast(b, e) ==
    /\ events' = Append(events, e)
    /\ IF sse_clients = {}
       THEN BroadcastNobody(b)
       ELSE /\ \E x \in sse_clients, ok \in BOOLEAN :
                SendSse(b, [NoBc EXCEPT !.i = Len(events) + 1,
                                        !.start = sse_clients],
                        x, Len(events) + 1, ok)
            /\ UNCHANGED emptyBc

\* the clients of the set the iteration started on that it has still to give
MustVisit(b) == (bc[b].start \cap sse_clients) \ bc[b].visited
\* clients added since: the iteration gives them or not, by their hash slot
MayVisit(b) == sse_clients \ (bc[b].start \cup bc[b].visited)

\* the pass discards every client it wrote to
BcastFinish_DropsVisited(b) ==
    /\ sse_clients' = sse_clients \ bc[b].visited
    /\ bc' = [x \in Bcasters |->
                IF x = b THEN [bc[b] EXCEPT !.st = "done"]
                ELSE IF bc[x].st = "writing" /\ sse_clients' # sse_clients
                     THEN [bc[x] EXCEPT !.oth = TRUE]
                     ELSE bc[x]]
    /\ UNCHANGED sinkWrites

\* sse.py:63-65: the pass is over, the clients whose write failed are
\* discarded.  The set every other iteration runs on has changed.
BcastFinish(b) ==
    /\ sse_clients' = sse_clients \ bc[b].disc
    /\ bc' = [x \in Bcasters |->
                IF x = b THEN [bc[b] EXCEPT !.st = "done"]
                ELSE IF bc[x].st = "writing" /\ sse_clients' # sse_clients
                     THEN [bc[x] EXCEPT !.oth = TRUE]
                     ELSE bc[x]]
    /\ UNCHANGED sinkWrites

\* sse.py:58-65: a write of broadcast b has returned; the for statement asks
\* the set iterator for the next client.  The iterator raises RuntimeError
\* when the size of the set is not the size it started on.
BcastStep(b) ==
    /\ bc[b].st = "writing"
    /\ IF Cardinality(sse_clients) # Cardinality(bc[b].start)
       THEN /\ bc' = [bc EXCEPT ![b].st = "raised"]
            /\ UNCHANGED <<sse_clients, sinkWrites>>
       ELSE \/ /\ \E x \in MustVisit(b) \cup MayVisit(b), ok \in BOOLEAN :
                    SendSse(b, bc[b], x, bc[b].i, ok)
               /\ UNCHANGED sse_clients
            \/ /\ MustVisit(b) = {}
               /\ BcastFinish(b)
    /\ UNCHANGED <<envVars, watchVars, execRead, srvPc, sanVars, mgrVars, procVars, callVars, shotVars, logVars, nSubs,
                   subPc, hbPc, nbeats, emptyBc>>

\* every iteration in progress has seen sse_handler change the set
MarkExt == [x \in Bcasters |->
              IF bc[x].st = "writing" THEN [bc[x] EXCEPT !.ext = TRUE] ELSE bc[x]]

\* sse.py:86-99: sse_handler up to the write of the retry line: the response
\* is in the set; ok is whether that write went through (it is not guarded:
\* when it raises the handler ends and the response stays in the set)
Subscribe(s, ok) ==
    /\ s = nSubs + 1
    /\ s \in Subs
    /\ nSubs' = s
    /\ sse_clients' = sse_clients \cup {s}
    /\ subPc' = [subPc EXCEPT ![s] = IF ok THEN "hello" ELSE "died"]
    /\ bc' = MarkExt
    /\ UNCHANGED <<envVars, watchVars, execRead, srvPc, sanVars, mgrVars, procVars, callVars, shotVars, logVars, hbPc,
                   nbeats, sinkWrites, emptyBc>>

\* a new client is sent the last event that was broadcast
SubHello_Replays(s) ==
    /\ subPc[s] = "hello"
    /\ subPc' = [subPc EXCEPT ![s] = "loop"]
    /\ sinkWrites' = IF events = <<>> THEN sinkWrites
                     ELSE sinkWrites \cup {[s |-> s, i |-> Len(events), ok |-> TRUE]}
    /\ UNCHANGED <<envVars, watchVars, execRead, srvPc, sanVars, mgrVars, procVars, callVars, shotVars, logVars,
                   sse_clients, nSubs, hbPc, nbeats, bc, emptyBc>>

\* sse.py:100-107: the connected event (and the workflow status) are sent to
\* this response alone, whatever their result; the handler starts to sleep
SubHello(s) ==
    /\ subPc[s] = "hello"
    /\ subPc' = [subPc EXCEPT ![s] = "loop"]
    /\ UNCHANGED <<envVars, watchVars, execRead, srvPc, sanVars, mgrVars, procVars, callVars, shotVars, logVars,
                   sse_clients, nSubs, hbPc, nbeats, bcVars>>

\* sse.py:107-114: the sleep returns and the response is no longer in the set
SubWake(s) ==
    /\ subPc[s] = "loop"
    /\ s \notin sse_clients
    /\ subPc' = [subPc EXCEPT ![s] = "closed"]
    /\ UNCHANGED <<envVars, watchVars, execRead, srvPc, sanVars, mgrVars, procVars, callVars, shotVars, logVars,
                   sse_clients, nSubs, hbPc, nbeats, bcVars>>

\* sse.py:99-114: the client disconnects and the handler is cancelled: inside
\* the try the response is discarded, before it the response stays in the set
SubCancel(s) ==
    /\ subPc[s] \in {"hello", "loop"}
    /\ IF subPc[s] = "loop"
       THEN /\ subPc' = [subPc EXCEPT ![s] = "closed"]
            /\ sse_clients' = sse_clients \ {s}
            /\ bc' = IF s \in sse_clients THEN MarkExt ELSE bc
       ELSE /\ subPc' = [subPc EXCEPT ![s] = "died"]
            /\ UNCHANGED <<sse_clients, bc>>
    /\ UNCHANGED <<envVars, watchVars, execRead, srvPc, sanVars, mgrVars, procVars, callVars, shotVars, logVars, nSubs,
                   hbPc, nbeats, sinkWrites, emptyBc>>

\* the heartbeat is sent only while a session is Running
HbTick_OnlyRunning ==
    /\ srvPc = "up"
    /\ hbPc = "sleep"
    /\ sse_clients # {}
    /\ claude_manager # 0
    /\ status[claude_manager] = RUNNING
    /\ nbeats < MaxBeats
    /\ nbeats' = nbeats + 1
    /\ Broadcast(HbB, HeartbeatEv(nbeats + 1))
    /\ hbPc' = "bcast"
    /\ UNCHANGED <<envVars, watchVars, execRead, srvPc, sanVars, mgrVars, procVars, callVars, shotVars, nread,
                   writes, oneshots, sse_clients, nSubs, subPc>>

\* sse.py:122-125: the heartbeat sleep returns while there are clients
HbTick ==
    /\ srvPc = "up"
    /\ hbPc = "sleep"
    /\ sse_clients # {}
    /\ nbeats < MaxBeats
    /\ nbeats' = nbeats + 1
    /\ Broadcast(HbB, HeartbeatEv(nbeats + 1))
    /\ hbPc' = "bcast"
    /\ UNCHANGED <<envVars, watchVars, execRead, srvPc, sanVars, mgrVars, procVars, callVars, shotVars, nread,
                   writes, oneshots, sse_clients, nSubs, subPc>>

\* sse.py:125-126: the heartbeat broadcast returns; nothing guards it
HbReturn ==
    /\ srvPc = "up"
    /\ hbPc = "bcast"
    /\ Returned(HbB)
    /\ hbPc' = IF Raised(HbB) THEN "raised" ELSE "sleep"
    /\ NoBroadcast(HbB)
    /\ UNCHANGED <<envVars, watchVars, execRead, srvPc, sanVars, mgrVars, procVars, callVars, shotVars, logVars,
                   sse_clients, nSubs, subPc, nbeats>>

\* ------------------------------------------------------------------ on_shutdown()
\* server.py:153-160: on_shutdown cancels the heartbeat task and awaits it
ShutdownBegin ==
    /\ srvPc = "up"
    /\ srvPc' = "hb_await"
    /\ UNCHANGED <<envVars, watchVars, mgrVars, procVars, callVars, logVars, hubVars,
                   bcVars, shotVars, execRead, sanVars>>

\* sse.py:122-125: the heartbeat task, in its sleep or in its broadcast, ends
\* on the cancellation
HbCancelled ==
    /\ srvPc = "hb_await"
    /\ hbPc \in {"sleep", "bcast"}
    /\ hbPc' = "cancelled"
    /\ NoBroadcast(HbB)
    /\ UNCHANGED <<envVars, watchVars, mgrVars, procVars, callVars, logVars, sse_clients,
                   nSubs, subPc, nbeats, shotVars, execRead, sanVars, srvPc>>

\* server.py:159-166: the await of the heartbeat task returns: the
\* CancelledError is passed over, the exception the task ended with is not;
\* then stop_file_watcher is awaited
ShutdownAwaited ==
    /\ srvPc = "hb_await"
    /\ hbPc \in {"cancelled", "raised"}
    /\ srvPc' = IF hbPc = "raised" THEN "raised" ELSE "watcher"
    /\ UNCHANGED <<envVars, watchVars, mgrVars, procVars, callVars, logVars, hubVars,
                   bcVars, shotVars, execRead, sanVars>>

\* server.py:166-172: stop_file_watcher returns, every SSE response is
\* discarded from the set, and on_shutdown returns
ShutdownEnd ==
    /\ srvPc = "watcher"
    /\ srvPc' = "down"
    /\ sse_clients' = {}
    /\ bc' = IF sse_clients # {} THEN MarkExt ELSE bc
    /\ UNCHANGED <<envVars, watchVars, mgrVars, procVars, callVars, logVars, nSubs, subPc,
                   hbPc, nbeats, sinkWrites, emptyBc, shotVars, execRead, sanVars>>

\* ------------------------------------------------------------------ start()
\* the guard compares with the wrong state
StartIsRunning_Starting(m) == status[m] = STARTING

\* claude_manager.py:67  if self.status == ProcessStatus.RUNNING
StartIsRunning(m) == status[m] = RUNNING

\* claude_manager.py:67-74: the guard, or STARTING and its broadcast
StartBegin(c, m) ==
    IF StartIsRunning(m)
    THEN /\ Ret(c, "ret_true")
         /\ NoBroadcast(CallB(c))
         /\ UNCHANGED <<status, events>>
    ELSE /\ status' = [status EXCEPT ![m] = STARTING]
         /\ Broadcast(CallB(c), StatusEv(m, STARTING, 0, ""))
         /\ pc' = [pc EXCEPT ![c] = "start_spawn"]
         /\ callMgr' = [callMgr EXCEPT ![c] = m]
         /\ UNCHANGED <<callCmd, callTask>>

\* handlers/claude.py:367
NeedNewManager(p) ==
    claude_manager = 0 \/ project_path[claude_manager] # p

\* handlers/claude.py:355-370: start_claude_handler up to the first await
\* inside start().  p is the path load_recent_projects gave (None: no
\* project, or the path does not exist).
StartHandler(c, p) ==
    /\ Idle(c)
    /\ ops < MaxOps
    /\ ops' = ops + 1
    /\ IF p = None
       THEN /\ Ret(c, "resp_early")
            /\ NoBroadcast(CallB(c))
            /\ UNCHANGED <<claude_manager, nMgrs, project_path, status, events>>
       ELSE IF NeedNewManager(p)
            THEN /\ nMgrs < MaxMgrs
                 /\ nMgrs' = nMgrs + 1
                 /\ claude_manager' = nMgrs + 1
                 /\ project_path' = [project_path EXCEPT ![nMgrs + 1] = p]
                 /\ StartBegin(c, nMgrs + 1)
            ELSE /\ UNCHANGED <<claude_manager, nMgrs, project_path>>
                 /\ StartBegin(c, claude_manager)
    /\ UNCHANGED <<envVars, watchVars, execRead, srvPc, sanVars, pid, started_at, error_message, pty_process, read_task,
                   procVars, nread, writes, oneshots, hubVars, shotVars>>

\* claude_manager.py:107-124: both except branches of start()
StartFail(c, m, msg) ==
    /\ status' = [status EXCEPT ![m] = ERROR]
    /\ error_message' = [error_message EXCEPT ![m] = msg]
    /\ Broadcast(CallB(c), StatusEv(m, ERROR, 0, msg))
    /\ Goto(c, "start_fail")
    /\ UNCHANGED <<pid, started_at, pty_process, read_task, procVars>>

\* claude_manager.py:97-104: the common tail of a successful start()
StartRunning(c, m, p) ==
    /\ started_at' = [started_at EXCEPT ![m] = ops]
    /\ status' = [status EXCEPT ![m] = RUNNING]
    /\ error_message' = [error_message EXCEPT ![m] = None]
    /\ pid' = [pid EXCEPT ![m] = p]
    /\ Broadcast(CallB(c), StatusEv(m, RUNNING, p, ""))
    /\ Goto(c, "start_ok")

\* the handle of the spawned process is not kept
StartPty_DropsHandle(c, m) ==
    LET p == NextProc IN
    /\ p \in Procs
    /\ UNCHANGED pty_process
    /\ procState' = [procState EXCEPT ![p] = "alive"]
    /\ owner' = [owner EXCEPT ![p] = m]
    /\ read_task' = [read_task EXCEPT ![m] = p]
    /\ taskPc' = [taskPc EXCEPT ![p] = "new"]
    /\ UNCHANGED taskCancel
    /\ StartRunning(c, m, PtyPid(p))

\* claude_manager.py:76-82: spawn under a PTY and create the read task
StartPty(c, m) ==
    LET p == NextProc IN
    /\ p \in Procs
    /\ pty_process' = [pty_process EXCEPT ![m] = p]
    /\ procState' = [procState EXCEPT ![p] = "alive"]
    /\ owner' = [owner EXCEPT ![p] = m]
    /\ read_task' = [read_task EXCEPT ![m] = p]
    /\ taskPc' = [taskPc EXCEPT ![p] = "new"]
    /\ UNCHANGED taskCancel
    /\ StartRunning(c, m, PtyPid(p))

\* claude_manager.py:84-95: the version probe of the stateless mode
StartProbe(c, m) ==
    /\ UNCHANGED <<pty_process, read_task, procVars>>
    /\ StartRunning(c, m, StatelessPid)

\* claude_manager.py:74-124: start() resumed after the starting broadcast.
\* out is what the spawn (or the probe) does.  A broadcast that raised is
\* caught by the except Exception branch, like a failed spawn.
StartSpawn(c, out) ==
    /\ pc[c] = "start_spawn"
    /\ Returned(CallB(c))
    /\ LET m == callMgr[c] IN
       IF Raised(CallB(c))
       THEN /\ out = "error"
            /\ StartFail(c, m, SetChangedMsg)
       ELSE CASE out = "ok" -> IF interactive THEN StartPty(c, m) ELSE StartProbe(c, m)
              [] out = "notfound" -> StartFail(c, m, NotFoundMsg)
              [] out = "error" -> StartFail(c, m, SpawnErrMsg)
    /\ UNCHANGED <<envVars, watchVars, execRead, srvPc, sanVars, claude_manager, nMgrs, project_path, ops, nread,
                   writes, oneshots, hubVars, shotVars>>

\* claude_manager.py:101-124 and handlers/claude.py:370-378: the running or
\* the error broadcast returns.  The running broadcast is inside the try: when
\* it raises, the except Exception branch runs.  The error broadcast is inside
\* an except branch: when it raises, start() and the handler end with it.
StartReturn(c) ==
    /\ pc[c] \in {"start_ok", "start_fail"}
    /\ Returned(CallB(c))
    /\ IF Raised(CallB(c)) /\ pc[c] = "start_ok"
       THEN /\ StartFail(c, callMgr[c], SetChangedMsg)
            /\ UNCHANGED <<claude_manager, nMgrs, project_path>>
       ELSE /\ Ret(c, IF Raised(CallB(c)) THEN "raised"
                      ELSE IF pc[c] = "start_ok" THEN "ret_true" ELSE "ret_false")
            /\ NoBroadcast(CallB(c))
            /\ UNCHANGED <<mgrVars, procVars, events>>
    /\ UNCHANGED <<envVars, watchVars, execRead, srvPc, sanVars, ops, nread, writes, oneshots, hubVars, shotVars>>

\* ------------------------------------------------------------------ stop()
\* claude_manager.py:135-146: close the handle, STOPPED, broadcast.
\* closed is whether _pty_process.close() returned (it may raise, and the
\* exception is logged).
StopClose(c, m, closed) ==
    /\ IF pty_process[m] # 0
       THEN /\ procState' = [procState EXCEPT ![pty_process[m]] =
                                IF closed THEN "closed" ELSE @]
            /\ pty_process' = [pty_process EXCEPT ![m] = 0]
       ELSE /\ closed
            /\ UNCHANGED <<procState, pty_process>>
    /\ status' = [status EXCEPT ![m] = STOPPED]
    /\ pid' = [pid EXCEPT ![m] = 0]
    /\ Broadcast(CallB(c), StatusEv(m, STOPPED, 0, ""))
    /\ pc' = [pc EXCEPT ![c] = "stop_bcast"]
    /\ callMgr' = [callMgr EXCEPT ![c] = m]
    /\ callTask' = [callTask EXCEPT ![c] = 0]
    /\ UNCHANGED callCmd

\* claude_manager.py:128  if self._read_task and not self._read_task.done()
StopMustCancel(m) == read_task[m] # 0 /\ ~TaskDone(read_task[m])

\* claude_manager.py:126-146: stop() up to its first await
StopBegin(c, m, closed) ==
    IF StopMustCancel(m)
    THEN /\ closed
         /\ taskCancel' = [taskCancel EXCEPT ![read_task[m]] = TRUE]
         /\ pc' = [pc EXCEPT ![c] = "stop_await"]
         /\ callMgr' = [callMgr EXCEPT ![c] = m]
         /\ callTask' = [callTask EXCEPT ![c] = read_task[m]]
         /\ NoBroadcast(CallB(c))
         /\ UNCHANGED <<callCmd, procState, pty_process, status, pid, events>>
    ELSE /\ StopClose(c, m, closed)
         /\ UNCHANGED taskCancel

\* handlers/claude.py:381-391: stop_claude_handler up to the first await
StopHandler(c, closed) ==
    /\ Idle(c)
    /\ ops < MaxOps
    /\ ops' = ops + 1
    /\ IF claude_manager = 0
       THEN /\ closed
            /\ Ret(c, "resp_early")
            /\ NoBroadcast(CallB(c))
            /\ UNCHANGED <<procState, pty_process, status, pid, events, taskCancel>>
       ELSE StopBegin(c, claude_manager, closed)
    /\ UNCHANGED <<envVars, watchVars, execRead, srvPc, sanVars, claude_manager, nMgrs, project_path, started_at,
                   error_message, read_task, taskPc, owner, nread, writes,
                   oneshots, hubVars, shotVars>>

\* claude_manager.py:131-146: the awaited read task has ended
StopAwaited(c, closed) ==
    /\ pc[c] = "stop_await"
    /\ TaskDone(callTask[c])
    /\ StopClose(c, callMgr[c], closed)
    /\ UNCHANGED <<envVars, watchVars, execRead, srvPc, sanVars, claude_manager, nMgrs, project_path, started_at,
                   error_message, read_task, taskPc, taskCancel, owner, ops,
                   nread, writes, oneshots, hubVars, shotVars>>

\* claude_manager.py:145-146 and handlers/claude.py:391-396: the stopped
\* broadcast returns; nothing guards it
StopReturn(c) ==
    /\ pc[c] = "stop_bcast"
    /\ Returned(CallB(c))
    /\ Ret(c, IF Raised(CallB(c)) THEN "raised" ELSE "ret_true")
    /\ NoBroadcast(CallB(c))
    /\ UNCHANGED <<envVars, watchVars, execRead, srvPc, sanVars, mgrVars, procVars, ops, logVars, hubVars, shotVars>>

\* ------------------------------------------------------------------ send_command()
BadJson == "<bad json>"

\* handlers/claude.py:496
HandlerNotRunning == claude_manager = 0 \/ status[claude_manager] # RUNNING

\* handlers/claude.py:492-500: send_command_handler up to await request.json()
SendHandler(c) ==
    /\ Idle(c)
    /\ ops < MaxOps
    /\ ops' = ops + 1
    /\ IF HandlerNotRunning
       THEN Ret(c, "resp_early")
       ELSE Goto(c, "send_body")
    /\ UNCHANGED <<envVars, watchVars, execRead, srvPc, sanVars, mgrVars, procVars, logVars, hubVars, bcVars, shotVars>>

\* the guard rejects only the Error state
SendNotRunning_OnlyError(m) == status[m] = ERROR

\* claude_manager.py:159  if self.status != ProcessStatus.RUNNING
SendNotRunning(m) == status[m] # RUNNING

\* claude_manager.py:157-164: send_command() up to the command_sent broadcast
SendBegin(c, m, cmd) ==
    IF SendNotRunning(m)
    THEN /\ Ret(c, "ret_false")
         /\ NoBroadcast(CallB(c))
         /\ UNCHANGED events
    ELSE /\ Broadcast(CallB(c), CmdEv(m, cmd))
         /\ pc' = [pc EXCEPT ![c] = "send_write"]
         /\ callMgr' = [callMgr EXCEPT ![c] = m]
         /\ callCmd' = [callCmd EXCEPT ![c] = cmd]
         /\ UNCHANGED callTask

\* handlers/claude.py:499-508: the body is parsed and send_command is called
SendBody(c, body) ==
    /\ pc[c] = "send_body"
    /\ IF body \in {BadJson, ""}
       THEN /\ Ret(c, "resp_early")
            /\ NoBroadcast(CallB(c))
            /\ UNCHANGED events
       ELSE SendBegin(c, claude_manager, body)
    /\ UNCHANGED <<envVars, watchVars, execRead, srvPc, sanVars, mgrVars, procVars, ops, nread, writes, oneshots,
                   hubVars, shotVars>>

\* claude_manager.py:168  self._pty_process.write(command + '\n')
PtyWrite(p, cmd, ok) ==
    writes' = Append(writes, [p |-> p, data |-> cmd \o "\n", ok |-> ok,
                              seen |-> Len(events)])

\* a write that fails ends the session
SendWrite_FailureStops(c, ok) ==
    /\ pc[c] = "send_write"
    /\ Returned(CallB(c))
    /\ ~Raised(CallB(c))
    /\ LET m == callMgr[c] IN
       IF pty_process[m] # 0
       THEN /\ PtyWrite(pty_process[m], callCmd[c], ok)
            /\ Ret(c, IF ok THEN "ret_true" ELSE "ret_false")
            /\ status' = [status EXCEPT ![m] = IF ok THEN @ ELSE ERROR]
            /\ UNCHANGED oneshots
       ELSE /\ ok
            /\ oneshots' = Append(oneshots, [m |-> m, cmd |-> callCmd[c]])
            /\ Ret(c, "ret_true")
            /\ UNCHANGED <<writes, status>>
    /\ NoBroadcast(CallB(c))
    /\ UNCHANGED <<envVars, watchVars, execRead, srvPc, sanVars, claude_manager, nMgrs, project_path, pid,
                   started_at, error_message, pty_process, read_task,
                   procVars, ops, nread, events, hubVars, shotVars>>

\* claude_manager.py:164-175: send_command() resumed after its broadcast
\* (which nothing guards).  ok is whether the write returned (it may raise).
SendWrite(c, ok) ==
    /\ pc[c] = "send_write"
    /\ Returned(CallB(c))
    /\ LET m == callMgr[c] IN
       IF Raised(CallB(c))
       THEN /\ ok
            /\ Ret(c, "raised")
            /\ UNCHANGED <<writes, oneshots>>
       ELSE IF pty_process[m] # 0
       THEN /\ PtyWrite(pty_process[m], callCmd[c], ok)
            /\ Ret(c, IF ok THEN "ret_true" ELSE "ret_false")
            /\ UNCHANGED oneshots
       ELSE /\ ok
            /\ oneshots' = Append(oneshots, [m |-> m, cmd |-> callCmd[c]])
            /\ Ret(c, "ret_true")
            /\ UNCHANGED writes
    /\ NoBroadcast(CallB(c))
    /\ UNCHANGED <<envVars, watchVars, execRead, srvPc, sanVars, mgrVars, procVars, ops, nread, events, hubVars, shotVars>>

\* ------------------------------------------------------------------ the read task
\* claude_manager.py:206-209: after the loop
ExitLoop(t) ==
    LET m == owner[t] IN
    IF pty_process[m] # 0 /\ ~IsAlive(pty_process[m])
    THEN /\ status' = [status EXCEPT ![m] = STOPPED]
         /\ Broadcast(TaskB(t), StatusEv(m, STOPPED, 0, ""))
         /\ taskPc' = [taskPc EXCEPT ![t] = "final"]
    ELSE /\ taskPc' = [taskPc EXCEPT ![t] = "done"]
         /\ NoBroadcast(TaskB(t))
         /\ UNCHANGED <<status, events>>

\* claude_manager.py:181  while self._pty_process and self.status == RUNNING
LoopCond(m) == pty_process[m] # 0 /\ status[m] = RUNNING

\* claude_manager.py:181-185: the loop test, then the read handed to the executor
LoopTop(t) ==
    IF LoopCond(owner[t])
    THEN /\ taskPc' = [taskPc EXCEPT ![t] = "read"]
         /\ NoBroadcast(TaskB(t))
         /\ UNCHANGED <<status, events>>
    ELSE ExitLoop(t)

\* the except branch gives the session up: Error, and the task ends
ExceptSleep_Fatal(t) ==
    /\ taskPc' = [taskPc EXCEPT ![t] = "done"]
    /\ NoBroadcast(TaskB(t))
    /\ status' = [status EXCEPT ![owner[t]] = ERROR]
    /\ UNCHANGED events

\* the except Exception branch of the loop: log, then sleep 0.5 s
ExceptSleep(t) ==
    /\ taskPc' = [taskPc EXCEPT ![t] = "sleep5"]
    /\ NoBroadcast(TaskB(t))
    /\ UNCHANGED <<status, events>>

\* the task ends: normally, or with the exception nothing caught
TaskEnd(t, how) ==
    /\ taskPc' = [taskPc EXCEPT ![t] = how]
    /\ NoBroadcast(TaskB(t))
    /\ UNCHANGED <<status, events>>

\* the task's first run; a task cancelled before it ran never runs
TaskStart(t) ==
    /\ taskPc[t] = "new"
    /\ IF taskCancel[t] THEN TaskEnd(t, "done") ELSE LoopTop(t)
    /\ taskCancel' = [taskCancel EXCEPT ![t] = FALSE]
    /\ UNCHANGED <<envVars, watchVars, execRead, srvPc, sanVars, claude_manager, nMgrs, project_path, pid,
                   started_at, error_message, pty_process, read_task, procState, owner,
                   callVars, nread, writes, oneshots, hubVars, shotVars>>

\* what the read in the executor can give: the handle is gone (AttributeError),
\* the process is dead (""), or the read returns data, data that is only
\* escape sequences, nothing, or raises
ReadOutcomes(m) ==
    IF pty_process[m] = 0 THEN {"raise"}
    ELSE IF ~IsAlive(pty_process[m]) THEN {"none", "raise"}
    ELSE {"data", "blank", "none", "raise"}

\* claude_manager.py:183-204: the executor read returns, or the task is
\* cancelled: the await ends with CancelledError while the thread of the
\* executor, which cannot be interrupted, goes on with the read
ReadReturn(t, out) ==
    /\ taskPc[t] = "read"
    /\ IF taskCancel[t]
       THEN /\ out = "raise"
            /\ ExitLoop(t)
            /\ execRead' = [execRead EXCEPT ![t] = TRUE]
            /\ UNCHANGED nread
       ELSE /\ out \in ReadOutcomes(owner[t])
            /\ UNCHANGED execRead
            /\ CASE out = "data" ->
                      /\ nread < MaxChunks
                      /\ nread' = nread + 1
                      /\ Broadcast(TaskB(t), TextEv(owner[t], nread + 1))
                      /\ taskPc' = [taskPc EXCEPT ![t] = "bcast"]
                      /\ UNCHANGED status
                 [] out = "blank" ->
                      /\ LoopTop(t)
                      /\ UNCHANGED nread
                 [] out = "none" ->
                      /\ taskPc' = [taskPc EXCEPT ![t] = "sleep1"]
                      /\ NoBroadcast(TaskB(t))
                      /\ UNCHANGED <<status, events, nread>>
                 [] out = "raise" ->
                      /\ ExceptSleep(t)
                      /\ UNCHANGED nread
    /\ taskCancel' = [taskCancel EXCEPT ![t] = FALSE]
    /\ UNCHANGED <<envVars, watchVars, srvPc, claude_manager, nMgrs, project_path, pid,
                   started_at, error_message, pty_process, read_task, procState, owner,
                   callVars, writes, oneshots, hubVars, shotVars>>

\* ------------------------------------------------------------------ ansi_escape
\* bytes of a chunk: ESC (0x1B), BEL (0x07) and the printable "[", "]", "2",
\* "K", "a"
ESC == "ESC"
BEL == "BEL"
\* claude_manager.py:179  [@-Z\\-_]: 0x40-0x5A and 0x5C-0x5F
FeBytes == {"K", "]"}
\* [0-?]
ParamBytes == {"2"}
\* [ -/]
InterBytes == {}
\* [@-~]
FinalBytes == {"a", "K", "[", "]"}

\* the first place from j on where s has no byte of class (Len(s) + 1: none)
RECURSIVE SkipWhile(_, _, _)
SkipWhile(s, j, class) ==
    IF j <= Len(s) /\ s[j] \in class THEN SkipWhile(s, j + 1, class) ELSE j

\* the first place from j on where s has BEL (Len(s) + 1: none)
RECURSIVE FindBel(_, _)
FindBel(s, j) ==
    IF j <= Len(s) /\ s[j] # BEL THEN FindBel(s, j + 1) ELSE j

\* claude_manager.py:179: the length of the match of ansi_escape at place i
\* of s, 0 when there is none.  The three alternatives are tried in the order
\* they are written.
MatchLen(s, i) ==
    IF s[i] # ESC \/ i = Len(s) THEN 0
    ELSE IF s[i + 1] \in FeBytes THEN 2
    ELSE IF s[i + 1] = "["
         THEN LET f == SkipWhile(s, SkipWhile(s, i + 2, ParamBytes), InterBytes) IN
              IF f <= Len(s) /\ s[f] \in FinalBytes THEN f + 1 - i ELSE 0
    ELSE IF s[i + 1] = "]"
         THEN LET b == FindBel(s, i + 2) IN
              IF b <= Len(s) THEN b + 1 - i ELSE 0
    ELSE 0

RECURSIVE SubFrom(_, _)
SubFrom(s, i) ==
    IF i > Len(s) THEN <<>>
    ELSE IF MatchLen(s, i) > 0 THEN SubFrom(s, i + MatchLen(s, i))
    ELSE <<s[i]>> \o SubFrom(s, i + 1)

\* claude_manager.py:189  ansi_escape.sub('', output)
AnsiSub(s) == SubFrom(s, 1)

\* the pieces a chunk is made of: plain text, and the escape sequences the
\* expression names: a two-byte sequence, two control sequences (CSI), an
\* operating system command (OSC) ended by BEL
MaxTokens == 3
Tokens ==
    {[text |-> TRUE, bytes |-> <<"a">>],
     [text |-> TRUE, bytes |-> <<"2">>],
     [text |-> FALSE, bytes |-> <<ESC, "K">>],
     [text |-> FALSE, bytes |-> <<ESC, "[", "2", "K">>],
     [text |-> FALSE, bytes |-> <<ESC, "[", "a">>],
     [text |-> FALSE, bytes |-> <<ESC, "]", "2", BEL>>]}
TokenSeqs == UNION {[1..n -> Tokens] : n \in 1..MaxTokens}

RECURSIVE RawOf(_)
RawOf(toks) ==
    IF toks = <<>> THEN <<>> ELSE toks[1].bytes \o RawOf(Tail(toks))
RECURSIVE TextOf(_)
TextOf(toks) ==
    IF toks = <<>> THEN <<>>
    ELSE (IF toks[1].text THEN toks[1].bytes ELSE <<>>) \o TextOf(Tail(toks))

\* claude_manager.py:183-196: the read returns the chunk raw (not empty); it
\* is sanitized, and broadcast when something is left
ReadChunk(t, raw) ==
    /\ raw # <<>>
    /\ ReadReturn(t, IF AnsiSub(raw) = <<>> THEN "blank" ELSE "data")
    /\ output' = raw
    /\ clean_output' = AnsiSub(raw)
    /\ UNCHANGED <<stream, nbytes, content>>

\* the pieces of a stream: plain text, two-byte sequences and control
\* sequences (CSI)
StreamTokens == {tok \in Tokens : tok.text \/ tok.bytes[2] # "]"}

\* the most bytes a stream has (its longest piece has 4)
StreamBytes == 4 * MaxStream

\* the child process writes a piece to its PTY
ProcOutput(p, tok) ==
    /\ IsAlive(p)
    /\ Len(stream) < MaxStream
    /\ stream' = Append(stream, tok)
    /\ UNCHANGED <<envVars, watchVars, mgrVars, procVars, callVars, logVars, hubVars,
                   bcVars, shotVars, execRead, srvPc, output, clean_output,
                   nbytes, content>>

\* claude_manager.py:183-196: the read returns the next n bytes the process
\* has written, wherever a piece ends; the chunk is sanitized on its own, and
\* broadcast when something is left
ReadPiece(t, n) ==
    LET raw == SubSeq(RawOf(stream), nbytes + 1, nbytes + n) IN
    /\ taskPc[t] = "read"
    /\ ~taskCancel[t]
    /\ "data" \in ReadOutcomes(owner[t])
    /\ n \in 1..(Len(RawOf(stream)) - nbytes)
    /\ output' = raw
    /\ clean_output' = AnsiSub(raw)
    /\ nbytes' = nbytes + n
    /\ IF AnsiSub(raw) # <<>>
       THEN /\ nread' = nread + 1
            /\ Broadcast(TaskB(t), TextEv(owner[t], nread + 1))
            /\ taskPc' = [taskPc EXCEPT ![t] = "bcast"]
            /\ content' = content \o AnsiSub(raw)
            /\ UNCHANGED status
       ELSE /\ LoopTop(t)
            /\ UNCHANGED <<nread, content>>
    /\ UNCHANGED <<envVars, watchVars, srvPc, execRead, stream, taskCancel, claude_manager,
                   nMgrs, project_path, pid, started_at, error_message,
                   pty_process, read_task, procState, owner, callVars, writes,
                   oneshots, hubVars, shotVars>>

\* claude_manager.py:192-204: the text broadcast or the 0.1 s sleep returns;
\* both awaits are inside the try, so a cancellation breaks out of the loop
\* and an exception of the broadcast goes to the except Exception branch
TryAwaitReturn(t) ==
    /\ taskPc[t] \in {"bcast", "sleep1"}
    /\ taskCancel[t] \/ Returned(TaskB(t))
    /\ IF taskCancel[t] THEN ExitLoop(t)
       ELSE IF Raised(TaskB(t)) THEN ExceptSleep(t)
       ELSE LoopTop(t)
    /\ taskCancel' = [taskCancel EXCEPT ![t] = FALSE]
    /\ UNCHANGED <<envVars, watchVars, execRead, srvPc, sanVars, claude_manager, nMgrs, project_path, pid,
                   started_at, error_message, pty_process, read_task, procState, owner,
                   callVars, nread, writes, oneshots, hubVars, shotVars>>

\* claude_manager.py:202-204: the 0.5 s sleep of the except branch returns;
\* this await is outside the try, so a cancellation ends the task at once
ExceptSleepReturn(t) ==
    /\ taskPc[t] = "sleep5"
    /\ IF taskCancel[t] THEN TaskEnd(t, "done") ELSE LoopTop(t)
    /\ taskCancel' = [taskCancel EXCEPT ![t] = FALSE]
    /\ UNCHANGED <<envVars, watchVars, execRead, srvPc, sanVars, claude_manager, nMgrs, project_path, pid,
                   started_at, error_message, pty_process, read_task, procState, owner,
                   callVars, nread, writes, oneshots, hubVars, shotVars>>

\* claude_manager.py:209: the stopped broadcast of the task returns, or the
\* task is cancelled inside it; nothing guards it
FinalReturn(t) ==
    /\ taskPc[t] = "final"
    /\ taskCancel[t] \/ Returned(TaskB(t))
    /\ TaskEnd(t, IF ~taskCancel[t] /\ Raised(TaskB(t)) THEN "raised" ELSE "done")
    /\ taskCancel' = [taskCancel EXCEPT ![t] = FALSE]
    /\ UNCHANGED <<envVars, watchVars, execRead, srvPc, sanVars, claude_manager, nMgrs, project_path, pid,
                   started_at, error_message, pty_process, read_task, procState, owner,
                   callVars, nread, writes, oneshots, hubVars, shotVars>>

\* claude_manager.py:183-185: the read a cancelled task left in the executor
\* returns (or raises, on a handle that was closed or cleared); nobody takes
\* its result
ExecFinish(t) ==
    /\ execRead[t]
    /\ execRead' = [execRead EXCEPT ![t] = FALSE]
    /\ UNCHANGED <<envVars, watchVars, mgrVars, procVars, callVars, logVars, hubVars,
                   bcVars, shotVars, srvPc, sanVars>>

\* ------------------------------------------------------------------ _execute_stateless()
\* the task of _execute_stateless leaves the broadcast it was in, if any
ShotQuiet(k) ==
    /\ NoBroadcast(ShotB(k))
    /\ UNCHANGED events

\* the except branch only logs the exception
ShotExcept_Silent(k) ==
    /\ NoBroadcast(ShotB(k))
    /\ UNCHANGED events
    /\ shotPc' = [shotPc EXCEPT ![k] = "failed"]

\* claude_manager.py:257-263: the except Exception branch of the execution
ShotExcept(k) ==
    /\ Broadcast(ShotB(k), ExecFailedEv(k))
    /\ shotPc' = [shotPc EXCEPT ![k] = "failed"]

\* claude_manager.py:211-229: the task created by send_command() runs up to
\* the await of create_subprocess
ShotStart(k) ==
    /\ shotPc[k] = "none"
    /\ k <= Len(oneshots)
    /\ shotPc' = [shotPc EXCEPT ![k] = "spawn"]
    /\ UNCHANGED <<envVars, watchVars, execRead, srvPc, sanVars, mgrVars, procVars, callVars, logVars, hubVars,
                   bcVars, rdPc, child, returncode, nlines>>

\* claude_manager.py:216-247: create_subprocess returns, and gather starts
\* the two read_stream coroutines; or it raises (ok is false)
ShotSpawned(k, ok) ==
    /\ shotPc[k] = "spawn"
    /\ IF ok
       THEN /\ child' = [child EXCEPT ![k] = "running"]
            /\ rdPc' = [rdPc EXCEPT ![k] = [st \in Streams |-> "readline"]]
            /\ shotPc' = [shotPc EXCEPT ![k] = "drain"]
            /\ ShotQuiet(k)
       ELSE /\ ShotExcept(k)
            /\ UNCHANGED <<child, rdPc>>
    /\ UNCHANGED <<envVars, watchVars, execRead, srvPc, sanVars, mgrVars, procVars, callVars, nread, writes,
                   oneshots, hubVars, returncode, nlines>>

\* what stream.readline() can give: a line, a line that is empty once
\* stripped, the end of the stream (the child has exited), or ValueError for
\* a line longer than the limit of the StreamReader
LineOutcomes(k, st) ==
    (IF nlines[k][st] < MaxLines THEN {"line", "blank", "toolong"} ELSE {})
        \cup (IF child[k] = "exited" THEN {"eof"} ELSE {})

\* claude_manager.py:232-242: one readline of read_stream returns
ReadLine(k, st, out) ==
    /\ rdPc[k][st] = "readline"
    /\ out \in LineOutcomes(k, st)
    /\ CASE out = "line" ->
              /\ nlines' = [nlines EXCEPT ![k][st] = @ + 1]
              /\ Broadcast(StreamB(k, st), LineEv(k, st, nlines[k][st] + 1))
              /\ rdPc' = [rdPc EXCEPT ![k][st] = "bcast"]
         [] out = "blank" ->
              /\ nlines' = [nlines EXCEPT ![k][st] = @ + 1]
              /\ NoBroadcast(StreamB(k, st))
              /\ UNCHANGED <<events, rdPc>>
         [] out = "eof" ->
              /\ rdPc' = [rdPc EXCEPT ![k][st] = "eof"]
              /\ NoBroadcast(StreamB(k, st))
              /\ UNCHANGED <<events, nlines>>
         [] out = "toolong" ->
              /\ rdPc' = [rdPc EXCEPT ![k][st] = "raised"]
              /\ NoBroadcast(StreamB(k, st))
              /\ UNCHANGED <<events, nlines>>
    /\ UNCHANGED <<envVars, watchVars, execRead, srvPc, sanVars, mgrVars, procVars, callVars, nread, writes,
                   oneshots, hubVars, shotPc, child, returncode>>

\* claude_manager.py:238-242: the broadcast of a line returns; nothing in
\* read_stream guards it
LineBcastReturn(k, st) ==
    /\ rdPc[k][st] = "bcast"
    /\ Returned(StreamB(k, st))
    /\ rdPc' = [rdPc EXCEPT ![k][st] =
                  IF Raised(StreamB(k, st)) THEN "raised" ELSE "readline"]
    /\ NoBroadcast(StreamB(k, st))
    /\ UNCHANGED <<envVars, watchVars, execRead, srvPc, sanVars, mgrVars, procVars, callVars, logVars, hubVars,
                   shotPc, child, returncode, nlines>>

\* claude_manager.py:244-249: gather returns when both streams are drained,
\* and raises as soon as one read_stream has raised (the other goes on)
ShotGathered(k) ==
    /\ shotPc[k] = "drain"
    /\ IF \E st \in Streams : rdPc[k][st] = "raised"
       THEN ShotExcept(k)
       ELSE /\ \A st \in Streams : rdPc[k][st] = "eof"
            /\ shotPc' = [shotPc EXCEPT ![k] = "wait"]
            /\ ShotQuiet(k)
    /\ UNCHANGED <<envVars, watchVars, execRead, srvPc, sanVars, mgrVars, procVars, callVars, nread, writes,
                   oneshots, hubVars, rdPc, child, returncode, nlines>>

\* the complete event always reports success
ShotWaited_CodeZero(k) ==
    /\ shotPc[k] = "wait"
    /\ child[k] = "exited"
    /\ Broadcast(ShotB(k), CompleteEv(k, 0))
    /\ shotPc' = [shotPc EXCEPT ![k] = "complete"]
    /\ UNCHANGED <<envVars, watchVars, execRead, srvPc, sanVars, mgrVars, procVars, callVars, nread, writes,
                   oneshots, hubVars, rdPc, child, returncode, nlines>>

\* claude_manager.py:249-255: process.wait() returns and the complete event
\* is broadcast with process.returncode
ShotWaited(k) ==
    /\ shotPc[k] = "wait"
    /\ child[k] = "exited"
    /\ Broadcast(ShotB(k), CompleteEv(k, returncode[k]))
    /\ shotPc' = [shotPc EXCEPT ![k] = "complete"]
    /\ UNCHANGED <<envVars, watchVars, execRead, srvPc, sanVars, mgrVars, procVars, callVars, nread, writes,
                   oneshots, hubVars, rdPc, child, returncode, nlines>>

\* claude_manager.py:250-263: the complete broadcast (inside the try) or the
\* error broadcast (inside the except branch) returns
ShotBcastReturn(k) ==
    /\ shotPc[k] \in {"complete", "failed"}
    /\ Returned(ShotB(k))
    /\ IF Raised(ShotB(k)) /\ shotPc[k] = "complete"
       THEN ShotExcept(k)
       ELSE /\ shotPc' = [shotPc EXCEPT ![k] =
                            IF Raised(ShotB(k)) THEN "raised" ELSE "done"]
            /\ ShotQuiet(k)
    /\ UNCHANGED <<envVars, watchVars, execRead, srvPc, sanVars, mgrVars, procVars, callVars, nread, writes,
                   oneshots, hubVars, rdPc, child, returncode, nlines>>

\* the one-shot child exits with code c
ChildExit(k, c) ==
    /\ child[k] = "running"
    /\ child' = [child EXCEPT ![k] = "exited"]
    /\ returncode' = [returncode EXCEPT ![k] = c]
    /\ UNCHANGED <<envVars, watchVars, execRead, srvPc, sanVars, mgrVars, procVars, callVars, logVars, hubVars,
                   bcVars, shotPc, rdPc, nlines>>

\* ------------------------------------------------------------------ the file watcher
\* watchers.py:133 and 117-119: stop_file_watcher clears file_watcher_task
\* and returns; start_file_watcher then creates the task of the new project
AfterStop(o, kind) ==
    /\ openPc' = [openPc EXCEPT ![o] = "idle"]
    /\ openTask' = [openTask EXCEPT ![o] = 0]
    /\ IF kind = "start"
       THEN /\ nWatchers < MaxWatchers
            /\ nWatchers' = nWatchers + 1
            /\ file_watcher_task' = nWatchers + 1
            /\ watchPc' = [watchPc EXCEPT ![nWatchers + 1] = "new"]
       ELSE /\ file_watcher_task' = 0
            /\ UNCHANGED <<nWatchers, watchPc>>

\* watchers.py:127  if file_watcher_task (awaiting a task that has ended
\* returns at once)
MustAwaitWatcher == file_watcher_task # 0 /\ watchPc[file_watcher_task] # "done"

\* watchers.py:111-134: a call of start_file_watcher (kind "start") or of
\* stop_file_watcher alone (kind "stop") up to its first suspension: the
\* await of the task it has cancelled, if there is one that has not ended
FileWatcherCall(o, kind) ==
    /\ openPc[o] = "idle"
    /\ nOpens < MaxOpens
    /\ nOpens' = nOpens + 1
    /\ IF MustAwaitWatcher
       THEN /\ watchCancel' = [watchCancel EXCEPT ![file_watcher_task] = TRUE]
            /\ openPc' = [openPc EXCEPT ![o] = kind]
            /\ openTask' = [openTask EXCEPT ![o] = file_watcher_task]
            /\ UNCHANGED <<file_watcher_task, nWatchers, watchPc>>
       ELSE /\ AfterStop(o, kind)
            /\ UNCHANGED watchCancel
    /\ UNCHANGED <<envVars, mgrVars, procVars, callVars, logVars, hubVars,
                   bcVars, shotVars, execRead, srvPc, sanVars>>

\* watchers.py:111-120 (open_project_handler, on_startup)
StartFileWatcher(o) == FileWatcherCall(o, "start")

\* watchers.py:123-134 (on_shutdown)
StopFileWatcher(o) == FileWatcherCall(o, "stop")

\* watchers.py:130-133 and 117-119: the awaited watcher task has ended
FileWatcherAwaited(o) ==
    /\ openPc[o] \in {"start", "stop"}
    /\ watchPc[openTask[o]] = "done"
    /\ AfterStop(o, openPc[o])
    /\ UNCHANGED <<watchCancel, nOpens>>
    /\ UNCHANGED <<envVars, mgrVars, procVars, callVars, logVars, hubVars,
                   bcVars, shotVars, execRead, srvPc, sanVars>>

\* watchers.py:31-55: the first run of watch_project_files, up to the wait
\* for changes; a task cancelled before it ran never runs
WatchBegin(w) ==
    /\ watchPc[w] = "new"
    /\ watchPc' = [watchPc EXCEPT ![w] = IF watchCancel[w] THEN "done" ELSE "watching"]
    /\ watchCancel' = [watchCancel EXCEPT ![w] = FALSE]
    /\ UNCHANGED <<file_watcher_task, nWatchers, openPc, openTask, nOpens>>
    /\ UNCHANGED <<envVars, mgrVars, procVars, callVars, logVars, hubVars,
                   bcVars, shotVars, execRead, srvPc, sanVars>>

\* watchers.py:69-70: the cancellation reaches the task and it ends
WatchCancelled(w) ==
    /\ watchPc[w] = "watching"
    /\ watchCancel[w]
    /\ watchPc' = [watchPc EXCEPT ![w] = "done"]
    /\ watchCancel' = [watchCancel EXCEPT ![w] = FALSE]
    /\ UNCHANGED <<file_watcher_task, nWatchers, openPc, openTask, nOpens>>
    /\ UNCHANGED <<envVars, mgrVars, procVars, callVars, logVars, hubVars,
                   bcVars, shotVars, execRead, srvPc, sanVars>>

\* watchers.py:71-72: the wait for changes raises and the task ends
WatchFailed(w) ==
    /\ watchPc[w] = "watching"
    /\ ~watchCancel[w]
    /\ watchPc' = [watchPc EXCEPT ![w] = "done"]
    /\ UNCHANGED <<file_watcher_task, nWatchers, watchCancel, openPc, openTask,
                   nOpens>>
    /\ UNCHANGED <<envVars, mgrVars, procVars, callVars, logVars, hubVars,
                   bcVars, shotVars, execRead, srvPc, sanVars>>

\* ------------------------------------------------------------------ environment
\* the child process terminates on its own
ProcExit(p) ==
    /\ procState[p] = "alive"
    /\ procState' = [procState EXCEPT ![p] = "exited"]
    /\ UNCHANGED <<envVars, watchVars, execRead, srvPc, sanVars, mgrVars, taskPc, taskCancel, owner, callVars,
                   logVars, hubVars, bcVars, shotVars>>

\* ------------------------------------------------------------------ specification
\* one run of read task t, from where it was resumed to its next await
ReaderStep(t) ==
    \/ TaskStart(t)
    \/ \E out \in {"data", "blank", "none", "raise"} :
            ReadReturn(t, out) /\ UNCHANGED sanVars
    \/ TryAwaitReturn(t)
    \/ ExceptSleepReturn(t)
    \/ FinalReturn(t)

ReaderNext == \E t \in Procs : ReaderStep(t)

CallNext ==
    \/ \E c \in Callers, p \in projects \cup {None} : StartHandler(c, p)
    \/ \E c \in Callers, out \in {"ok", "notfound", "error"} : StartSpawn(c, out)
    \/ \E c \in Callers : StartReturn(c)
    \/ \E c \in Callers, closed \in BOOLEAN : StopHandler(c, closed)
    \/ \E c \in Callers, closed \in BOOLEAN : StopAwaited(c, closed)
    \/ \E c \in Callers : StopReturn(c)
    \/ \E c \in Callers : SendHandler(c)
    \/ \E c \in Callers, body \in Cmds \cup {"", BadJson} : SendBody(c, body)
    \/ \E c \in Callers, ok \in BOOLEAN : SendWrite(c, ok)

Next ==
    \/ CallNext
    \/ ReaderNext
    \/ \E t \in Procs : ExecFinish(t)
    \/ \E p \in Procs : ProcExit(p)

Spec == Init /\ [][Next]_vars

CtlSpec == CtlInit /\ [][Next]_vars

\* the event hub with its subscribers and the heartbeat, and the start
\* requests of a session without a PTY
HubInit == InitWith({"projA"}) /\ ~interactive

\* a start request made while the hub has, or may get, subscribers
HubStart(c, p) == ops < MaxHubOps /\ StartHandler(c, p)

SubNext ==
    \/ \E s \in Subs, ok \in BOOLEAN : Subscribe(s, ok)
    \/ \E s \in Subs : SubHello(s)
    \/ \E s \in Subs : SubWake(s)
    \/ \E s \in Subs : SubCancel(s)

HubNext ==
    \/ SubNext
    \/ \E b \in Bcasters : BcastStep(b)
    \/ HbTick
    \/ HbReturn
    \/ \E c \in Callers, p \in projects \cup {None} : HubStart(c, p)
    \/ \E c \in Callers, out \in {"ok", "notfound", "error"} : StartSpawn(c, out)
    \/ \E c \in Callers : StartReturn(c)

HubSpec == HubInit /\ [][HubNext]_vars

\* a session without a PTY: every command is a one-shot execution
ShotInit == InitWith({"projA"}) /\ ~interactive

\* one run of the one-shot execution k or of one of its stream readers
ShotStep(k) ==
    \/ ShotStart(k)
    \/ \E ok \in BOOLEAN : ShotSpawned(k, ok)
    \/ \E st \in Streams, out \in {"line", "blank", "eof", "toolong"} :
            ReadLine(k, st, out)
    \/ \E st \in Streams : LineBcastReturn(k, st)
    \/ ShotGathered(k)
    \/ ShotWaited(k)
    \/ ShotBcastReturn(k)

ShotNext ==
    \/ \E c \in Callers, p \in projects \cup {None} : StartHandler(c, p)
    \/ \E c \in Callers, out \in {"ok", "notfound", "error"} : StartSpawn(c, out)
    \/ \E c \in Callers : StartReturn(c)
    \/ \E c \in Callers : SendHandler(c)
    \/ \E c \in Callers, body \in Cmds \cup {"", BadJson} : SendBody(c, body)
    \/ \E c \in Callers, ok \in BOOLEAN : SendWrite(c, ok)
    \/ \E k \in Shots : ShotStep(k)
    \/ \E k \in Shots, c \in ExitCodes : ChildExit(k, c)

ShotSpec == ShotInit /\ [][ShotNext]_vars

\* a session without a PTY that is stopped while its one-shot executions run
OffInit == InitWith({"projA"}) /\ ~interactive

OffNext ==
    \/ ShotNext
    \/ \E c \in Callers, closed \in BOOLEAN : StopHandler(c, closed)
    \/ \E c \in Callers : StopReturn(c)

OffSpec == OffInit /\ [][OffNext]_vars

\* the event hub alone: connections come and go, no session is ever started
\* and the heartbeat is the only broadcast
BeatInit == InitWith({"projA"}) /\ ~interactive

BeatNext ==
    \/ SubNext
    \/ BcastStep(HbB)
    \/ HbTick
    \/ HbReturn

\* the event loop resumes every coroutine whose await has returned, and the
\* sleeps of the heartbeat task and of the connection handlers return
BeatSpec ==
    /\ BeatInit
    /\ [][BeatNext]_vars
    /\ WF_vars(BcastStep(HbB))
    /\ WF_vars(HbTick)
    /\ WF_vars(HbReturn)
    /\ \A s \in Subs : WF_vars(SubHello(s)) /\ WF_vars(SubWake(s))

\* a session under a PTY whose reads return chunks of text and escape sequences
SanInit == Init /\ interactive

\* the start request of that session
SanStart(c, p) == ops < MaxSanOps /\ StartHandler(c, p)

SanNext ==
    \/ \E c \in Callers, p \in projects \cup {None} : SanStart(c, p)
    \/ \E c \in Callers, out \in {"ok", "notfound", "error"} : StartSpawn(c, out)
    \/ \E c \in Callers : StartReturn(c)
    \/ \E t \in Procs : TaskStart(t)
    \/ \E t \in Procs, toks \in TokenSeqs : ReadChunk(t, RawOf(toks))
    \/ \E t \in Procs : TryAwaitReturn(t)

SanSpec == SanInit /\ [][SanNext]_vars

\* a session under a PTY whose child writes a stream of text and escape
\* sequences that the read task reads in chunks of any length
SplitInit == Init /\ interactive

SplitNext ==
    \/ \E c \in Callers, p \in projects \cup {None} : SanStart(c, p)
    \/ \E c \in Callers, out \in {"ok", "notfound", "error"} : StartSpawn(c, out)
    \/ \E c \in Callers : StartReturn(c)
    \/ \E t \in Procs : TaskStart(t)
    \/ \E p \in Procs, tok \in StreamTokens : ProcOutput(p, tok)
    \/ \E t \in Procs, n \in 1..StreamBytes : ReadPiece(t, n)
    \/ \E t \in Procs : TryAwaitReturn(t)

SplitSpec == SplitInit /\ [][SplitNext]_vars

\* a session under a PTY and the shutdown of the server that hosts it
DownInit == Init /\ interactive

DownNext ==
    \/ Next
    \/ ShutdownBegin
    \/ HbCancelled
    \/ ShutdownAwaited
    \/ ShutdownEnd

DownSpec == DownInit /\ [][DownNext]_vars

\* a session under a PTY that a start request has just started (the request
\* has returned, the read task has not run yet), no client connected so far
LiveInit ==
    /\ interactive = TRUE
    /\ projects = {"projA"}
    /\ claude_manager = 1
    /\ nMgrs = 1
    /\ project_path = [m \in Mgrs |-> IF m = 1 THEN "projA" ELSE None]
    /\ status = [m \in Mgrs |-> IF m = 1 THEN RUNNING ELSE STOPPED]
    /\ pid = [m \in Mgrs |-> IF m = 1 THEN PtyPid(1) ELSE 0]
    /\ started_at = [m \in Mgrs |-> IF m = 1 THEN 1 ELSE 0]
    /\ error_message = [m \in Mgrs |-> None]
    /\ pty_process = [m \in Mgrs |-> IF m = 1 THEN 1 ELSE 0]
    /\ read_task = [m \in Mgrs |-> IF m = 1 THEN 1 ELSE 0]
    /\ procState = [p \in Procs |-> IF p = 1 THEN "alive" ELSE "unspawned"]
    /\ taskPc = [p \in Procs |-> IF p = 1 THEN "new" ELSE "none"]
    /\ taskCancel = [p \in Procs |-> FALSE]
    /\ owner = [p \in Procs |-> IF p = 1 THEN 1 ELSE 0]
    /\ pc = [c \in Callers |-> IF c = 1 THEN "ret_true" ELSE "idle"]
    /\ callMgr = [c \in Callers |-> 0]
    /\ callCmd = [c \in Callers |-> ""]
    /\ callTask = [c \in Callers |-> 0]
    /\ ops = 1
    /\ nread = 0
    /\ events = <<StatusEv(1, STARTING, 0, ""), StatusEv(1, RUNNING, PtyPid(1), "")>>
    /\ writes = <<>>
    /\ oneshots = <<>>
    /\ sse_clients = {}
    /\ nSubs = 0
    /\ subPc = [s \in Subs |-> "none"]
    /\ hbPc = "sleep"
    /\ nbeats = 0
    /\ bc = [b \in Bcasters |-> NoBc]
    /\ sinkWrites = {}
    /\ emptyBc = {1, 2}
    /\ shotPc = [k \in Shots |-> "none"]
    /\ rdPc = [k \in Shots |-> [st \in Streams |-> "none"]]
    /\ child = [k \in Shots |-> "none"]
    /\ returncode = [k \in Shots |-> 0]
    /\ nlines = [k \in Shots |-> [st \in Streams |-> 0]]
    /\ execRead = [p \in Procs |-> FALSE]
    /\ srvPc = "up"
    /\ output = <<>>
    /\ clean_output = <<>>
    /\ stream = <<>>
    /\ nbytes = 0
    /\ content = <<>>
    /\ file_watcher_task = 0
    /\ nWatchers = 0
    /\ watchPc = [w \in Watchers |-> "none"]
    /\ watchCancel = [w \in Watchers |-> FALSE]
    /\ openPc = [o \in Openers |-> "idle"]
    /\ openTask = [o \in Openers |-> 0]
    /\ nOpens = 0

\* the stop request made on that session
LiveStop(c, closed) == ops < 1 + MaxLiveOps /\ StopHandler(c, closed)

LiveNext ==
    \/ SubNext
    \/ \E b \in Bcasters : BcastStep(b)
    \/ ReaderNext
    \/ \E t \in Procs : ExecFinish(t)
    \/ \E p \in Procs : ProcExit(p)
    \/ \E c \in Callers, closed \in BOOLEAN : LiveStop(c, closed)
    \/ \E c \in Callers, closed \in BOOLEAN : StopAwaited(c, closed)
    \/ \E c \in Callers : StopReturn(c)

LiveSpec == LiveInit /\ [][LiveNext]_vars

\* the file watcher alone: projects are opened and the watcher is stopped
WatchInit == InitWith({"projA"}) /\ ~interactive

WatchNext ==
    \/ \E o \in Openers : StartFileWatcher(o)
    \/ \E o \in Openers : StopFileWatcher(o)
    \/ \E o \in Openers : FileWatcherAwaited(o)
    \/ \E w \in Watchers : WatchBegin(w)
    \/ \E w \in Watchers : WatchCancelled(w)
    \/ \E w \in Watchers : WatchFailed(w)

WatchSpec == WatchInit /\ [][WatchNext]_vars

\* the event loop runs every task that is ready to run
FairSpec == Spec /\ \A t \in Procs : WF_vars(ReaderStep(t))

TypeOK ==
    /\ interactive \in BOOLEAN
    /\ projects \subseteq Paths
    /\ claude_manager \in 0..MaxMgrs
    /\ nMgrs \in 0..MaxMgrs
    /\ \A m \in Mgrs :
        /\ status[m] \in {STOPPED, STARTING, RUNNING, ERROR}
        /\ pty_process[m] \in 0..MaxProcs
        /\ read_task[m] \in 0..MaxProcs
    /\ \A p \in Procs :
        /\ procState[p] \in {"unspawned", "alive", "exited", "closed"}
        /\ taskPc[p] \in {"none", "new", "read", "bcast", "sleep1", "sleep5",
                          "final", "done", "raised"}
    /\ ops \in 0..MaxOps
    /\ sse_clients \subseteq Subs
    /\ nSubs \in 0..MaxSubs
    /\ \A s \in Subs : subPc[s] \in {"none", "hello", "loop", "closed", "died"}
    /\ hbPc \in {"sleep", "bcast", "raised", "cancelled"}
    /\ nbeats \in 0..MaxBeats
    /\ \A b \in Bcasters :
        /\ bc[b].st \in {"idle", "writing", "done", "raised"}
        /\ bc[b].visited \subseteq Subs
        /\ bc[b].disc \subseteq bc[b].visited
        /\ bc[b].nw = Cardinality(bc[b].visited)
    /\ \A w \in sinkWrites : w.s \in Subs /\ w.i \in 1..Len(events)
    /\ emptyBc \subseteq 1..Len(events)
    /\ execRead \in [Procs -> BOOLEAN]
    /\ srvPc \in {"up", "hb_await", "watcher", "down", "raised"}
    /\ file_watcher_task \in 0..MaxWatchers
    /\ nWatchers \in 0..MaxWatchers
    /\ nOpens \in 0..MaxOpens
    /\ \A w \in Watchers : watchPc[w] \in {"none", "new", "watching", "done"}
    /\ \A o \in Openers :
        /\ openPc[o] \in {"idle", "start", "stop"}
        /\ openTask[o] \in 0..MaxWatchers
    /\ nbytes \in 0..Len(RawOf(stream))
    /\ \A k \in Shots :
        /\ shotPc[k] \in {"none", "spawn", "drain", "wait", "complete",
                          "failed", "done", "raised"}
        /\ child[k] \in {"none", "running", "exited"}
        /\ returncode[k] \in ExitCodes
        /\ \A st \in Streams :
            /\ rdPc[k][st] \in {"none", "readline", "bcast", "eof", "raised"}
            /\ nlines[k][st] \in 0..MaxLines

\* ================================================================== claims
Last(seq) == seq[Len(seq)]
StoppedEv(m) == StatusEv(m, STOPPED, 0, "")
\* the processes manager m spawned whose handle has not been closed
OpenProcs(m) == {p \in Procs : owner[p] = m /\ procState[p] \in {"alive", "exited"}}
\* the read tasks of manager m that have not ended
LiveTasks(m) == {t \in Procs : owner[t] = m /\ taskPc[t] \notin {"none", "done", "raised"}}
CmdSent == SelectSeq(events, LAMBDA e : e.ev = "command_sent")

\* C1: in every reachable state a manager has at most one spawned child
\* process whose handle has not been closed (start() never replaced a
\* handle that is still open).
C1_AtMostOneOpenChild ==
    \A m \in Mgrs : Cardinality(OpenProcs(m)) <= 1

\* C2: in interactive mode, once the child process has exited on its own while
\* the state is Running, the read loop eventually sets the state to Stopped
\* unless a stop() call is made.
C2_ExitLeadsToStopped ==
    \A m \in Mgrs :
        (/\ interactive
         /\ status[m] = RUNNING
         /\ pty_process[m] # 0
         /\ procState[pty_process[m]] = "exited")
            ~> \/ status[m] = STOPPED
               \/ \E c \in Callers : pc[c] \in {"stop_await", "stop_bcast"}

\* C3: a stop() call made while the state is already Stopped and no other
\* call is in progress broadcasts no event (so stop() calls with no start()
\* between them emit at most one stopped event).
C3_StopWhenStoppedSilent ==
    [][\A c \in Callers, closed \in BOOLEAN :
          (/\ StopHandler(c, closed)
           /\ \A d \in Callers : Idle(d)
           /\ claude_manager # 0
           /\ status[claude_manager] = STOPPED)
              => events' = events]_vars

\* C4: a start() call made while the state is Running returns success at once
\* and changes nothing: no process, no read task, no event, and state, pid,
\* startedAt and lastError as they were.
C4_StartWhenRunningNoOp ==
    [][\A c \in Callers, p \in Paths :
          (/\ StartHandler(c, p)
           /\ ~NeedNewManager(p)
           /\ status[claude_manager] = RUNNING)
              => /\ pc'[c] = "ret_true"
                 /\ UNCHANGED <<mgrVars, procVars, logVars>>
                 /\ GetStatus(claude_manager)' = GetStatus(claude_manager)]_vars

\* C4 witness: two calls have returned success and the only events are the
\* starting and running of the first: the second was a start() on a Running
\* manager.
C4_Witness ==
    /\ \A c \in Callers : pc[c] = "ret_true"
    /\ ops = 2
    /\ Len(events) = 2
    /\ claude_manager # 0
    /\ status[claude_manager] = RUNNING

\* C5: a manager that has been replaced as the global manager owns nothing:
\* it is not Starting or Running, holds no handle, and has no child process
\* left open and no read task left running.
C5_ReplacedManagerStopped ==
    \A m \in Mgrs :
        (m <= nMgrs /\ m # claude_manager)
            => /\ status[m] \in {STOPPED, ERROR}
               /\ pty_process[m] = 0
               /\ OpenProcs(m) = {}
               /\ LiveTasks(m) = {}

\* C6: a read loop that stop() cancels while it is suspended in its backoff
\* sleep ends without broadcasting anything, and stop() then broadcasts
\* exactly one stopped event: one stopped event in total, whether the child
\* process is alive or has exited.
C6_CancelInSleepOneStopped ==
    [][/\ \A t \in Procs :
            (taskPc[t] = "sleep1" /\ taskCancel[t] /\ taskPc'[t] # "sleep1")
                => events' = events
       /\ \A c \in Callers :
            (pc[c] = "stop_await" /\ pc'[c] # "stop_await")
                => /\ events' = Append(events, StoppedEv(callMgr[c]))
                   /\ pty_process'[callMgr[c]] = 0]_vars

\* C7: a send request that finds the state other than Running fails and has
\* no effect: no event, no write, no one-shot execution, and the manager and
\* the processes as they were.
C7_SendWhenNotRunningNoOp ==
    [][\A c \in Callers :
          /\ (SendHandler(c) /\ HandlerNotRunning)
                => /\ pc'[c] = "resp_early"
                   /\ UNCHANGED <<mgrVars, procVars, logVars>>
          /\ \A body \in Cmds :
                (SendBody(c, body) /\ status[claude_manager] # RUNNING)
                    => /\ pc'[c] = "ret_false"
                       /\ UNCHANGED <<mgrVars, procVars, logVars>>
                       /\ GetStatus(claude_manager)' = GetStatus(claude_manager)]_vars

\* C7 witness: send_command() itself has returned failure: a call returned
\* False that was neither a failed start() nor a failed write.
C7_Witness ==
    /\ \E c \in Callers : pc[c] = "ret_false"
    /\ writes = <<>>
    /\ \A i \in 1..Len(events) : events[i].status # ERROR

\* C8: in interactive mode, once no send_command() is between its broadcast
\* and its write, every command_sent event has been followed by exactly one
\* write of its text and a line terminator (as many writes of a text as
\* command_sent events carrying it), and every write came after a
\* command_sent event carrying its text.
C8_OneWritePerCommandSent ==
    (interactive /\ \A c \in Callers : pc[c] # "send_write")
        => /\ \A cmd \in Cmds :
                Cardinality({k \in 1..Len(writes) : writes[k].data = cmd \o "\n"})
                    = Cardinality({i \in 1..Len(CmdSent) : CmdSent[i].cmd = cmd})
           /\ \A k \in 1..Len(writes) :
                \E i \in 1..writes[k].seen :
                    /\ events[i].ev = "command_sent"
                    /\ writes[k].data = events[i].cmd \o "\n"

\* C9: a session started in interactive mode never spawns a one-shot
\* stateless execution.
C9_InteractiveNeverOneShot ==
    interactive => oneshots = <<>>

\* C10: a start() whose spawn or probe fails sets the state to Error, records
\* lastError (which getStatus() returns), broadcasts one error status event
\* carrying that message, and then returns failure without another event.
\* (A start() whose starting broadcast raised is not a failed spawn and is
\* left out of both conjuncts.)
C10_FailedStartReportsError ==
    [][\A c \in Callers :
          /\ \A out \in {"notfound", "error"} :
                (StartSpawn(c, out) /\ ~Raised(CallB(c)))
                    => LET m == callMgr[c] IN
                       /\ pc'[c] = "start_fail"
                       /\ GetStatus(m)'.status = ERROR
                       /\ GetStatus(m)'.error_message \in {NotFoundMsg, SpawnErrMsg}
                       /\ events' = Append(events,
                              StatusEv(m, ERROR, 0, GetStatus(m)'.error_message))
          /\ (/\ pc[c] = "start_fail" /\ pc'[c] # "start_fail"
              /\ error_message[callMgr[c]] # SetChangedMsg)
                => /\ pc'[c] = "ret_false"
                   /\ events' = events]_vars

\* C11: a start() call made from Stopped or from Error broadcasts one
\* starting event; when its spawn or probe succeeds the state is Running,
\* startedAt and pid are set, lastError is cleared and one running event
\* carrying that pid is broadcast; the call then returns success without
\* another event.
C11_SuccessfulStart ==
    [][\A c \in Callers :
          /\ \A p \in Paths :
                (/\ StartHandler(c, p)
                 /\ \/ NeedNewManager(p)
                    \/ status[claude_manager] \in {STOPPED, ERROR})
                    => /\ pc'[c] = "start_spawn"
                       /\ events' = Append(events,
                              StatusEv(claude_manager', STARTING, 0, ""))
          /\ StartSpawn(c, "ok")
                => LET m == callMgr[c] IN
                   /\ pc'[c] = "start_ok"
                   /\ GetStatus(m)'.status = RUNNING
                   /\ GetStatus(m)'.started_at # 0
                   /\ GetStatus(m)'.pid # 0
                   /\ GetStatus(m)'.error_message = None
                   /\ events' = Append(events,
                          StatusEv(m, RUNNING, GetStatus(m)'.pid, ""))
          /\ (pc[c] = "start_ok" /\ pc'[c] # "start_ok")
                => /\ pc'[c] = "ret_true"
                   /\ events' = events]_vars

\* C12: the state becomes Running only directly from Starting, and becomes
\* Starting only through a start() call made while the state is not Running
\* (so it never passes from Stopped or Error directly to Running).
C12_StateMachine ==
    [][\A m \in Mgrs :
          /\ (status'[m] = RUNNING /\ status[m] # RUNNING)
                => status[m] = STARTING
          /\ (status'[m] = STARTING /\ status[m] # STARTING)
                => /\ status[m] # RUNNING
                   /\ \E c \in Callers, p \in Paths : StartHandler(c, p)]_vars

\* C14: when the write of a command to the process handle fails, the send
\* request returns failure, the manager and the processes are as they were
\* (state, pid and handle unchanged), nothing more is broadcast, and the
\* command_sent event of the call is already among the events.
C14_WriteFailureKeepsSession ==
    [][\A c \in Callers :
          (SendWrite(c, FALSE) /\ pty_process[callMgr[c]] # 0)
              => LET m == callMgr[c] IN
                 /\ pc'[c] = "ret_false"
                 /\ UNCHANGED <<mgrVars, procVars, events, oneshots>>
                 /\ \A k \in Mgrs : GetStatus(k)' = GetStatus(k)
                 /\ Last(writes').ok = FALSE
                 /\ \E i \in 1..Len(events) :
                        events[i] = CmdEv(m, callCmd[c])]_vars

\* C14 witness: a write has failed, the request has returned failure and the
\* session is still Running with its handle and pid
C14_Witness ==
    /\ writes # <<>>
    /\ ~Last(writes).ok
    /\ \E c \in Callers : pc[c] = "ret_false"
    /\ claude_manager # 0
    /\ status[claude_manager] = RUNNING
    /\ pty_process[claude_manager] = Last(writes).p
    /\ pid[claude_manager] = PtyPid(Last(writes).p)

\* the clients a write of event i failed on
FailedOn(i) == {s \in Subs : [s |-> s, i |-> i, ok |-> FALSE] \in sinkWrites}
\* the clients a write of event i was attempted on
WrittenTo(i) == {w.s : w \in {v \in sinkWrites : v.i = i}}

\* C13: whenever the state a status query returns is the state of a
\* claude_status event whose broadcast is in progress (or has raised), every
\* live subscriber of that broadcast has already been written the event.
C13_EventBeforeVisible ==
    \A b \in Bcasters :
        (/\ bc[b].st # "idle"
         /\ events[bc[b].i].ev = "claude_status"
         /\ GetStatus(events[bc[b].i].m).status = events[bc[b].i].status)
            => (bc[b].start \cap sse_clients) \subseteq bc[b].visited

\* C15: a broadcast during which nothing else changed the live set of N
\* subscribers does not raise, and when its pass is over it has attempted one
\* write on each subscriber and no more (N in total), it removes exactly the
\* subscribers whose write failed, and the set has N minus that many members.
C15_BroadcastRemovesFailed ==
    [][\A b \in Bcasters :
          (bc[b].st = "writing" /\ ~bc[b].ext /\ ~bc[b].oth)
              => /\ bc'[b].st # "raised"
                 /\ bc'[b].st = "done"
                      => /\ bc[b].start = sse_clients
                         /\ WrittenTo(bc[b].i) = sse_clients
                         /\ bc[b].nw = Cardinality(sse_clients)
                         /\ sse_clients' = sse_clients \ FailedOn(bc[b].i)
                         /\ Cardinality(sse_clients') =
                              Cardinality(sse_clients)
                                  - Cardinality(FailedOn(bc[b].i))]_vars

\* C15 witness: a broadcast on two subscribers, undisturbed, is over; one
\* write failed and that subscriber alone has been removed
C15_Witness ==
    \E b \in Bcasters :
        /\ bc[b].st = "done"
        /\ ~bc[b].ext /\ ~bc[b].oth
        /\ Cardinality(bc[b].start) = 2
        /\ Cardinality(FailedOn(bc[b].i)) = 1
        /\ sse_clients = bc[b].start \ FailedOn(bc[b].i)

\* C16: no write is ever attempted for an event that was broadcast while the
\* live set was empty: not then, and not to a subscriber that came later.
C16_NoReplay ==
    \A w \in sinkWrites : w.i \notin emptyBc

\* C16 witness: an event was broadcast to nobody, a subscriber came, and a
\* later event has been written to it
C16_Witness ==
    \E w \in sinkWrites :
        /\ w.ok
        /\ w.s \in sse_clients
        /\ \E i \in emptyBc : i < w.i

\* C17: a broadcast raises only when sse_handler changed the live set during
\* it, never because writes failed; and a start() whose broadcast raised for
\* no such reason leaves the state of the session as it was.
C17_DeliveryFailureAbsorbed ==
    [][/\ \A b \in Bcasters :
            (bc[b].st = "writing" /\ bc'[b].st = "raised") => bc[b].ext
       /\ \A c \in Callers :
            (Raised(CallB(c)) /\ ~bc[CallB(c)].ext) => status' = status]_vars

\* C18: no request, no read task and no heartbeat task ever ends with an
\* exception that nothing handled.
C18_NoUnhandledException ==
    /\ hbPc # "raised"
    /\ \A c \in Callers : pc[c] # "raised"
    /\ \A t \in Procs : taskPc[t] # "raised"

\* C19: a response is in the live set as soon as sse_handler has added it,
\* and it leaves the set only when its own handler is cancelled or after a
\* write to it has failed.
C19_SubscribersStay ==
    [][/\ \A s \in Subs, ok \in BOOLEAN :
            Subscribe(s, ok) => s \in sse_clients'
       /\ \A s \in Subs :
            (s \in sse_clients /\ s \notin sse_clients')
                => \/ SubCancel(s)
                   \/ s \in UNION {FailedOn(i) : i \in 1..Len(events)}]_vars

\* C19 witness: a subscriber was added while a broadcast was in progress; one
\* subscriber has been removed after a failed write and the other, whose
\* writes all succeeded, is still in the set
C19_Witness ==
    \E s1, s2 \in Subs :
        /\ s1 \notin sse_clients
        /\ subPc[s1] \in {"hello", "loop"}
        /\ \E i \in 1..Len(events) : s1 \in FailedOn(i)
        /\ s2 \in sse_clients
        /\ \E w \in sinkWrites : w.s = s2 /\ w.ok
        /\ \A w \in sinkWrites : w.s = s2 => w.ok
        /\ \E b \in Bcasters : bc[b].ext

\* the one-shot execution k and its stream readers have ended
ShotOver(k) ==
    /\ shotPc[k] \in {"done", "raised"}
    /\ \A st \in Streams : rdPc[k][st] \in {"eof", "raised"}
\* the places in events of the complete events of execution k
CompleteAt(k) ==
    {i \in 1..Len(events) : events[i].shot = k /\ events[i].status = "complete"}
\* the places in events of the lines read from the streams of its child
LinesAt(k) ==
    {i \in 1..Len(events) :
        /\ events[i].shot = k
        /\ events[i].status \in Streams
        /\ events[i].seq > 0}

\* C20: once a one-shot execution whose child has exited with code c is
\* over, exactly one complete event has been broadcast for it, it carries c,
\* and it comes after every event of a line of the child's stdout and stderr.
C20_OneCompleteAfterOutput ==
    \A k \in Shots :
        (child[k] = "exited" /\ ShotOver(k))
            => /\ Cardinality(CompleteAt(k)) = 1
               /\ \A i \in CompleteAt(k) :
                    /\ events[i].seq = returncode[k]
                    /\ \A j \in LinesAt(k) : j < i

\* create_subprocess raised, or a read_stream of the execution raised
ShotFailed(k) ==
    \/ child[k] = "none" /\ shotPc[k] \notin {"none", "spawn"}
    \/ \E st \in Streams : rdPc[k][st] = "raised"
\* the places in events of the error event of the except branch
FailedAt(k) == {i \in 1..Len(events) : events[i] = ExecFailedEv(k)}

C23_SanitizedContent ==
    [][\A t \in Procs, toks \in TokenSeqs :
          ReadChunk(t, RawOf(toks))
              => /\ clean_output' = TextOf(toks)
                 /\ TextOf(toks) = <<>> => events' = events
                 /\ TextOf(toks) # <<>>
                        => events' = Append(events, TextEv(owner[t], nread'))]_vars

\* C25: when stop() returns, the manager has no read task left running other
\* than the one its _read_task names (the only one a stop() can cancel and
\* await).
C25_StopLeavesNoReadTask ==
    [][\A c \in Callers :
          StopReturn(c)
              => LiveTasks(callMgr[c]) \subseteq {read_task[callMgr[c]]}]_vars

\* C27: no read of a manager's handle is in progress, in a read task or in
\* the executor thread a cancelled read task left behind, once the handle has
\* been cleared or closed.
C27_NoReadOnClearedHandle ==
    \A t \in Procs :
        (taskPc[t] = "read" \/ execRead[t])
            => /\ pty_process[owner[t]] # 0
               /\ procState[pty_process[owner[t]]] # "closed"

\* C28: in interactive mode a manager whose state is Running holds a process
\* handle.
C28_RunningHasHandle ==
    \A m \in Mgrs :
        (interactive /\ status[m] = RUNNING) => pty_process[m] # 0

\* C28 witness: the session was started, stopped and started again, and is
\* Running with the handle of its second process while read task 2 reads
C28_Witness ==
    /\ interactive
    /\ claude_manager # 0
    /\ status[claude_manager] = RUNNING
    /\ pty_process[claude_manager] = 2
    /\ procState[1] = "closed"
    /\ taskPc[2] = "read"
    /\ \E i \in 1..Len(events) : events[i] = StoppedEv(claude_manager)

\* C30: a read of the read loop that raises changes nothing of the manager
\* and of its processes (state, handle, pid) and sends the task to its 0.5 s
\* sleep; when that sleep returns with the session still Running, the task
\* reads again.
C30_ReadErrorKeepsRunning ==
    [][\A t \in Procs :
          /\ (ReadReturn(t, "raise") /\ ~taskCancel[t])
                => /\ taskPc'[t] = "sleep5"
                   /\ UNCHANGED <<mgrVars, procState, events>>
          /\ (ExceptSleepReturn(t) /\ ~taskCancel[t] /\ LoopCond(owner[t]))
                => /\ taskPc'[t] = "read"
                   /\ UNCHANGED <<mgrVars, procState, events>>]_vars

\* C30 witness: a read has raised, and the task is in its 0.5 s sleep with
\* the session Running on the same handle
C30_Witness ==
    \E t \in Procs :
        /\ taskPc[t] = "sleep5"
        /\ ~taskCancel[t]
        /\ status[owner[t]] = RUNNING
        /\ pty_process[owner[t]] = t
        /\ IsAlive(t)

\* C26: while a broadcast is suspended at the write to a subscriber the live
\* set does not change; the only change a broadcast sees during its pass is
\* its own removal of the subscribers whose write failed, made when the pass
\* is over.
C26_SetStableDuringPass ==
    [][\A b \in Bcasters :
          bc[b].st = "writing"
              => \/ sse_clients' = sse_clients
                 \/ BcastFinish(b)]_vars

\* C24: when on_shutdown returns, no manager holds a process handle, no
\* spawned process is left open, no read task is left running, and the
\* heartbeat task has ended.
C24_ShutdownTearsDown ==
    [][(srvPc # "down" /\ srvPc' = "down")
          => /\ hbPc' \in {"cancelled", "raised"}
             /\ \A m \in Mgrs :
                    /\ pty_process'[m] = 0
                    /\ OpenProcs(m)' = {}
                    /\ LiveTasks(m)' = {}]_vars

\* event i is a text event of a read loop
IsText(i) ==
    /\ events[i].ev = "claude_output"
    /\ events[i].status = "text"
    /\ events[i].shot = 0

\* C22: the text events of a session reach a subscriber in the order their
\* chunks were read (no write of a text event to a subscriber that was
\* already written a later one of the session), and when the broadcast of a
\* text event is over every subscriber it started on that is still live (in
\* the set, its handler running) has been written the event.
C22_TextEventsFifo ==
    [][/\ \A w \in sinkWrites' \ sinkWrites :
            IsText(w.i)'
                => \A v \in sinkWrites :
                      (v.s = w.s /\ IsText(v.i) /\ events[v.i].m = events'[w.i].m)
                          => v.i < w.i
       /\ \A t \in Procs :
            (/\ bc[TaskB(t)].st = "writing"
             /\ bc'[TaskB(t)].st \in {"done", "raised"}
             /\ IsText(bc[TaskB(t)].i))
                => \A s \in bc[TaskB(t)].start \cap sse_clients' :
                       subPc'[s] \in {"hello", "loop"}
                           => s \in bc'[TaskB(t)].visited]_vars

\* C29: every stop() that reaches the closing of the handle, whether close()
\* returns or raises, sets Stopped, clears pid and handle and broadcasts one
\* stopped event; stop() then returns success without another event.
C29_StopAlwaysSucceeds ==
    [][\A c \in Callers :
          /\ \A closed \in BOOLEAN :
                (\/ StopAwaited(c, closed)
                 \/ /\ StopHandler(c, closed)
                    /\ claude_manager # 0
                    /\ ~StopMustCancel(claude_manager))
                    => /\ pc'[c] = "stop_bcast"
                       /\ status'[callMgr'[c]] = STOPPED
                       /\ pid'[callMgr'[c]] = 0
                       /\ pty_process'[callMgr'[c]] = 0
                       /\ events' = Append(events, StoppedEv(callMgr'[c]))
          /\ (pc[c] = "stop_bcast" /\ pc'[c] # "stop_bcast")
                => /\ pc'[c] = "ret_true"
                   /\ events' = events]_vars

\* C31: a heartbeat event is handed to the broadcast only by a tick of the
\* heartbeat task taken while the live set is not empty, and the tick changes
\* nothing of a session; a heartbeat task that sleeps while the live set is
\* not empty can tick whatever the state of the session is (no manager,
\* Stopped, Starting, Running or Error).
C31_HeartbeatIndependent ==
    [][/\ (Len(events') > Len(events) /\ Last(events').ev = "heartbeat")
            => /\ HbTick
               /\ sse_clients # {}
               /\ UNCHANGED <<mgrVars, procVars, callVars>>
       /\ (hbPc = "sleep" /\ srvPc = "up" /\ nbeats < MaxBeats /\ sse_clients # {})
            => ENABLED HbTick]_vars

\* C31 witness: the heartbeat task has ticked, and is inside its broadcast,
\* while the session is in Error after a failed start
C31_Witness ==
    /\ hbPc = "bcast"
    /\ Last(events).ev = "heartbeat"
    /\ claude_manager # 0
    /\ status[claude_manager] = ERROR
    /\ \A c \in Callers : Idle(c)

\* a step of a start() or of a stop() call
StartOrStopStep ==
    \/ \E c \in Callers, p \in Paths : StartHandler(c, p)
    \/ \E c \in Callers, out \in {"ok", "notfound", "error"} : StartSpawn(c, out)
    \/ \E c \in Callers : StartReturn(c)
    \/ \E c \in Callers, closed \in BOOLEAN : StopHandler(c, closed)
    \/ \E c \in Callers, closed \in BOOLEAN : StopAwaited(c, closed)

\* C32: a manager whose state is Error leaves Error only in a step of a
\* start() or of a stop() call: never in a step of a read task, of a one-shot
\* execution, of the heartbeat or of a send request.
C32_ErrorOnlyLeftByStartStop ==
    [][\A m \in Mgrs :
          (status[m] = ERROR /\ status'[m] # ERROR) => StartOrStopStep]_vars

\* C33: in a session whose only calls are one start() and, begun while that
\* start() was suspended or after it returned, one stop(): when the stop()
\* returns after the start() has returned, the state is Stopped, no handle is
\* held and no read task of the manager is left running.
C33_StopWinsOverStart ==
    [][\A c \in Callers :
          (/\ StopReturn(c)
           /\ ops = 2
           /\ \A d \in Callers \ {c} : Idle(d))
              => LET m == callMgr[c] IN
                 /\ status'[m] = STOPPED
                 /\ pty_process'[m] = 0
                 /\ LiveTasks(m)' = {}]_vars

\* C34: in every reachable state a manager whose state is Stopped or Error
\* holds no process handle and no pid, and has no read task that has not
\* ended.
C34_IdleHoldsNothing ==
    \A m \in Mgrs :
        status[m] \in {STOPPED, ERROR}
            => /\ pty_process[m] = 0
               /\ pid[m] = 0
               /\ LiveTasks(m) = {}

\* event i is an output event (text, error or complete) of a one-shot
\* execution of manager m
IsShotOutput(i, m) ==
    /\ events[i].ev = "claude_output"
    /\ events[i].shot # 0
    /\ oneshots[events[i].shot].m = m

\* C35: after the stopped event of a stop() no output event of a one-shot
\* execution of that manager is broadcast before the running event of a
\* later start().
C35_NoOutputAfterStopped ==
    \A m \in Mgrs : \A i \in 1..Len(events) : \A j \in (i + 1)..Len(events) :
        (events[i] = StoppedEv(m) /\ IsShotOutput(j, m))
            => \E l \in (i + 1)..(j - 1) :
                    /\ events[l].ev = "claude_status"
                    /\ events[l].m = m
                    /\ events[l].status = RUNNING

\* connection s is live and writable: in the set, its handler running, no
\* write to it has failed
LiveSub(s) ==
    /\ s \in sse_clients
    /\ subPc[s] \in {"hello", "loop"}
    /\ \A w \in sinkWrites : w.s = s => w.ok
\* the last heartbeat has been written to s
BeatWritten(s) ==
    \E w \in sinkWrites : w.s = s /\ events[w.i] = HeartbeatEv(nbeats)

\* C36: every heartbeat broadcast that starts on a set with subscriber s in
\* it leads to the heartbeat task back in its sleep (from which it ticks
\* again) with the heartbeat written to s, unless s stops being live.
C36_HeartbeatRecurs ==
    \A s \in Subs :
        (hbPc = "bcast" /\ s \in bc[HbB].start /\ LiveSub(s))
            ~> \/ hbPc = "sleep" /\ BeatWritten(s)
               \/ ~LiveSub(s)

\* C37: a subscriber that a write of the heartbeat broadcast has failed on is
\* eventually out of the live set with its connection handler ended, with no
\* other broadcast than the heartbeat.
C37_UnwritableRemoved ==
    \A s \in Subs :
        (/\ hbPc = "bcast"
         /\ s \in sse_clients
         /\ s \in FailedOn(bc[HbB].i))
            ~> (s \notin sse_clients /\ subPc[s] \in {"closed", "died"})

\* C38: no content of a text event holds an escape byte and, whenever the
\* read task has read every byte the child has written, the contents of the
\* text events joined are the text of the stream (its escape sequences
\* removed), however the reads have split it.
C38_SplitStreamSanitized ==
    /\ \A i \in 1..Len(content) : content[i] # ESC
    /\ nbytes = Len(RawOf(stream)) => content = TextOf(stream)

\* C39: in every reachable state every watcher task that has been created,
\* except the one file_watcher_task names, has ended.
C39_OneFileWatcher ==
    \A w \in 1..nWatchers :
        w # file_watcher_task => watchPc[w] = "done"

====
